---- MODULE Spec2Model ----
(***************************************************************************)
(* A model of the request/response future (core/src/actor/dispatch/        *)
(* future.rs) and of the default spawner (core/src/actor/actor/props.rs)   *)
(* of nexus-actor-rs.                                                      *)
(*                                                                         *)
(* Every section of code that runs under ActorFutureInner's write lock is  *)
(* one action: the lock makes it atomic.  The code between two lock        *)
(* acquisitions (result()'s check of done and its call of notified(), the  *)
(* two halves of handle_timeout, the steps of the spawner between awaits)  *)
(* is split into separate actions, so that other tasks interleave there.   *)
(***************************************************************************)
EXTENDS Integers, Sequences, FiniteSets, TLC

None == "None"

\* ---- bounds of the model ------------------------------------------------
\* API calls and message sends the environment makes on the future
MaxOps == 3
\* spawn calls
MaxSpawns == 3
\* user messages the sender posts to one mailbox, system messages posted to it
\* besides the spawner's Start
MaxUserPosts == 2
MaxSysPosts == 1
\* the largest max_retries of a strategy, the failures handed to one strategy, the
\* failures on record when the first of them arrives, and the clock's last tick
MaxRetries == 2
MaxFailures == 3
MaxRecorded == 2
MaxTime == 2
\* the wrap_envelope calls made on one message
MaxWraps == 2
\* the longest receive timeout, the time that passes for the actor that sets it, the
\* messages posted to it and its set_receive_timeout calls
MaxReceiveTimeout == 2
MaxTicks == 3
MaxTimedPosts == 1
MaxTimedSets == 2
\* the operations called on a future whose callbacks and pipe targets call it again
MaxLockOps == 3
\* the subscriptions made on the event stream, and the publish calls
MaxSubscriptions == 3
MaxPublishes == 2
\* the subscriptions made on the log's event stream, the calls made on it, and the
\* greatest level of an event
MaxLogSubscriptions == 3
MaxLogCalls == 5
MaxLevel == 1
\* the middlewares of one kind added to one Props
MaxMiddlewares == 3
\* the calls made on the actors of a supervision tree from outside (send, stop,
\* request_future), and the failures of its children
MaxCalls == 2
MaxChildFailures == 1

\* ---- values ---------------------------------------------------------------
\* ActorFutureError (future.rs 22-28)
TimeoutError == "TimeoutError"
DeadLetterError == "DeadLetterError"
ActorFutureError == {TimeoutError, DeadLetterError}

\* payloads a process may be sent as a user message
DeadLetterResponse == "DeadLetterResponse"
Ping == "Ping"
Pong == "Pong"
UserPayloads == {Pong, DeadLetterResponse}
\* payloads sent through send_system_message (any MessageHandle is accepted)
SystemPayloads == {"Terminated", DeadLetterResponse}
\* arguments of explicit complete(msg) calls
DirectPayloads == {"Direct"}

\* PIDs given to pipe_to, callbacks given to continue_with, tasks awaiting result()
PipePids == {"p1", "p2"}
Callbacks == {"cb1", "cb2"}
Callers == {"c1"}
TimerTask == "timer"

\* the name ActorFutureProcess::new registers the process under
FutureName(id) == <<"future", id>>
FutureId == 0
TargetName == <<"target", 0>>

\* the names actors are spawned under
ActorNames == {<<"actor", 1>>, <<"actor", 2>>}
ProcessNames == {FutureName(FutureId), TargetName} \cup ActorNames
SpawnIds == 1..MaxSpawns
\* Props.on_init, in registration order
OnInit == <<"init1", "init2">>
PreStart == "PreStart"
Start == "Start"
\* the auto-receive message the invoker delivers when it is given Start
PostStart == "PostStart"
\* the system messages that toggle the mailbox's suspended flag
SuspendMailbox == "Suspend"
ResumeMailbox == "Resume"
PostedSystemMessages == {SuspendMailbox, ResumeMailbox}
\* the user messages the sender posts, in the order it posts them
SenderMessages == <<"m1", "m2", "m3", "m4", "m5">>
\* the dispatcher's throughput: user messages delivered per turn
Throughput == 1
\* the reason given to escalate_failure
ReceiveError == "ReceiveError"
\* the actor whose mailbox is exercised, and the name it is spawned under
MailboxActors == {1}
MailboxActorNames == {<<"actor", 1>>}

\* a PID is the name it is registered under; no PID, no process, no return yet
NoPid == <<"none", 0>>
NoProcess == <<"none", 0>>
FutureProcess == <<"future_process", FutureId>>
TargetProcess == <<"actor_process", 0>>
NotReturned == <<"None", None>>
NotSpawned == <<"None", NoPid>>
NotResolved == <<"none", None>>

Ok(m) == <<"Ok", m>>
Err(e) == <<"Err", e>>

VARIABLES
  \* ActorFutureInner
  pid, done, result, error, pipes, completions,
  \* Notify: Notified futures created and not yet woken, and those woken
  notifyWaiters, notified,
  \* ActorFutureProcess::new: the timeout and the timer task's position
  duration, timerPc,
  \* runnables scheduled on the system dispatcher and not yet run
  scheduled,
  \* tasks calling result(): position and returned value
  callerPc, callerRet,
  \* process registry (name -> process), request_future's envelope and the target
  processRegistry, reqPc, targetInbox, deadLetters,
  \* what the outside saw: messages received by pipe targets, callback invocations
  delivered, invoked,
  \* history: pipe_to calls per target, continue_with calls in call order (each
  \* with whether the future was done at the call),
  \* complete/fail calls that took effect, the call that resolved the future,
  \* environment operations so far,
  \* whether a message or an explicit complete/fail was directed at the future
  pipeCalls, registered, effective, resolvedBy, ops, touched,
  \* the default spawner, per spawn call: position, name, the PID add_process gave,
  \* returned value
  spawnPc, spawnName, spawnPid, spawnRet,
  \* per spawn call: the context's self_pid, the on_init hooks run, whether the
  \* mailbox has its handlers, the messages the invoker was given, the mailbox's
  \* system queue, whether mailbox.start() was called
  selfPid, initRun, handlers, invokedUser, systemMailbox, mailboxStarted,
  \* the mailbox of each spawned actor: its two queues, the dispatch latch, the
  \* suspended flag, the turns submitted to the dispatcher and not yet begun, the
  \* turns running, the running turn's position and its count of user messages,
  \* the turns that have released the latch and have yet to look at the queues
  userQueue, sysQueue, latch, suspended, submitted, liveTurns, turnPc, turnCount,
  rechecks,
  \* senders of the actor: user messages posted so far, system messages posted so
  \* far, and the message of a post that has enqueued and not yet tried the latch
  userPosted, sysPosted, userPostPc, sysPostPc,
  \* the invoker: system messages it was given, escalate_failure calls
  invokedSystem, escalated,
  \* the OneForOneStrategy of a supervisor: its two numbers, the clock (in units of
  \* the window), the restart statistics the failing child's reports carry, and
  \* the handle_failure calls so far
  max_retries, within_duration, clock, restartStats, handled,
  \* a message handle as its holder builds it, and what wrap_envelope returned for it,
  \* call by call
  envMessage, envWrapped,
  \* what unwrap_envelope returned, if it was called, and (history) the header, payload
  \* and sender the message was built with
  envUnwrapped, envBuilt,
  \* the actors of one supervision tree: lifecycle state, the process's dead flag, whether
  \* the registry holds the process, the mailbox's two queues and suspended flag, the
  \* living children, the messages the actor's receive was given; the events published on
  \* the dead-letter topic; the sends and stop calls made from outside, the failures so far
  actorState, actorDead, actorRegistered, actorSysQueue, actorUserQueue, actorSuspended, actorChildren, actorReceived, deadLetterEvents, sentLog, stopCalls, failures,
  \* Props: the receiver and sender middleware lists and the chains made of them; the
  \* last message through each chain: the list at that time and what happened, in order
  receiver_middleware, sender_middleware, receiver_middleware_chain, sender_middleware_chain,
  receiverTrace, senderTrace,
  \* history: the middlewares the options were given, in the order they were applied
  receiverAdded, senderAdded,
  \* the event stream: the subscriptions vector; per subscription the index it stores,
  \* whether it is active, its predicate, and (history) whether it was subscribed and
  \* unsubscribed; whether a publish call holds the read lock, its event and its place
  \* in the vector; the handler calls of the latest publish, the subscriptions it began with, and
  \* the publish calls begun so far
  subscriptions, subIndex, subActive, subPredicate, subState, publishing, publishEvt,
  publishNext, publishCalls, publishSubs, publishes,
  \* an actor with a receive timeout: the duration set (0 for none), the time left on its
  \* timer (0 when not armed), the time the timer has run, the actor's user messages
  \* queued and those its receive was given, whether it has stopped; the messages posted
  \* and the set_receive_timeout calls so far, and the time passed
  receive_timeout, timerRemaining, timerIdle, timedMailbox, timedReceived, timedStopped, timedPosts, timedSets, ticks,
  \* the watchers of each actor (PIDs told of its end), and the actor stop_future was
  \* called on
  actorWatchers, stopFutureOf,
  \* the future's inner RwLock as the tasks that call the future see it: the task holding
  \* its write guard; done, pipes and completions under it; each task's position in its
  \* operation, the operation, and the callback it is running; the operations called so far
  innerWriter, lockedDone, lockedPipes, lockedCompletions, taskPc, taskOp, taskCallback, lockOps,
  \* the log's event stream: the subscriptions vector; per subscription the index and the
  \* min_level it stores, what its handler does, and (history) whether it was subscribed,
  \* unsubscribed or cleared; whether a publish holds the read lock, its event's level, its place
  \* in the vector and the subscription whose handler it awaits; the subscriptions the latest
  \* publish came to; the latest call and the number of calls
  logSubscriptions, logIndex, logMinLevel, logFunc, logState, logReading, logEvt, logCursor, logRunning, logVisited, logLastCall, logCalls

futureVars == <<pid, done, result, error, pipes, completions, notifyWaiters, notified,
                duration, timerPc, scheduled, callerPc, callerRet,
                reqPc, targetInbox, deadLetters,
                delivered, invoked, pipeCalls, registered, effective, resolvedBy, ops,
                touched>>
spawnVars == <<spawnPc, spawnName, spawnPid, spawnRet, selfPid, initRun, handlers,
               invokedUser, systemMailbox, mailboxStarted>>

mailboxVars == <<userQueue, sysQueue, latch, suspended, submitted, liveTurns, turnPc,
                 turnCount, rechecks, userPosted, sysPosted, userPostPc, sysPostPc, invokedSystem,
                 escalated>>

strategyVars == <<max_retries, within_duration, clock, restartStats, handled>>

envelopeVars == <<envMessage, envWrapped, envUnwrapped, envBuilt>>

lifecycleVars == <<actorState, actorDead, actorRegistered, actorSysQueue, actorUserQueue, actorSuspended, actorChildren, actorReceived, deadLetterEvents, sentLog, stopCalls, failures>>

middlewareVars == <<receiver_middleware, sender_middleware, receiver_middleware_chain,
                    sender_middleware_chain, receiverTrace, senderTrace, receiverAdded,
                    senderAdded>>

eventStreamVars == <<subscriptions, subIndex, subActive, subPredicate, subState, publishing,
                     publishEvt, publishNext, publishCalls, publishSubs, publishes>>

receiveTimeoutVars == <<receive_timeout, timerRemaining, timerIdle, timedMailbox, timedReceived, timedStopped, timedPosts, timedSets, ticks>>

watchVars == <<actorWatchers, stopFutureOf>>

reentryVars == <<innerWriter, lockedDone, lockedPipes, lockedCompletions, taskPc, taskOp, taskCallback, lockOps>>

logStreamVars == <<logSubscriptions, logIndex, logMinLevel, logFunc, logState, logReading, logEvt, logCursor, logRunning, logVisited, logLastCall, logCalls>>

vars == <<processRegistry, futureVars, spawnVars, mailboxVars, strategyVars, envelopeVars, lifecycleVars, middlewareVars, eventStreamVars, receiveTimeoutVars, watchVars, reentryVars, logStreamVars>>
\* what the actions on the future, and those of the spawner, leave alone
nonFutureVars == <<spawnVars, mailboxVars, strategyVars, envelopeVars, lifecycleVars, middlewareVars, eventStreamVars, receiveTimeoutVars, watchVars, reentryVars, logStreamVars>>
nonSpawnVars == <<futureVars, strategyVars, envelopeVars, lifecycleVars, middlewareVars, eventStreamVars, receiveTimeoutVars, watchVars, reentryVars, logStreamVars>>
nonStrategyVars == <<processRegistry, futureVars, spawnVars, mailboxVars, envelopeVars, lifecycleVars, middlewareVars, eventStreamVars, receiveTimeoutVars, watchVars, reentryVars, logStreamVars>>

nonEnvelopeVars == <<processRegistry, futureVars, spawnVars, mailboxVars, strategyVars, lifecycleVars, middlewareVars, eventStreamVars, receiveTimeoutVars, watchVars, reentryVars, logStreamVars>>
nonLifecycleVars == <<processRegistry, futureVars, spawnVars, mailboxVars, strategyVars, envelopeVars, middlewareVars, eventStreamVars, receiveTimeoutVars, watchVars, reentryVars, logStreamVars>>
\* what a request through the tree leaves alone: the other sections, and of the future
\* all but the scheduled runnables and the request's position
nonLifecycleFutureVars == <<processRegistry, spawnVars, mailboxVars, strategyVars, envelopeVars, middlewareVars, eventStreamVars, receiveTimeoutVars, watchVars, reentryVars, logStreamVars>>
nonLifecycleFutureWatchVars == <<processRegistry, spawnVars, mailboxVars, strategyVars, envelopeVars, middlewareVars, eventStreamVars, receiveTimeoutVars, reentryVars, logStreamVars>>
futureAtRestVars == <<pid, done, result, error, pipes, completions, notifyWaiters, notified,
                      duration, timerPc, callerPc, callerRet, targetInbox, deadLetters,
                      delivered, invoked, pipeCalls, registered, effective, resolvedBy, ops>>
nonMiddlewareVars == <<processRegistry, futureVars, spawnVars, mailboxVars, strategyVars, envelopeVars, lifecycleVars, eventStreamVars, receiveTimeoutVars, watchVars, reentryVars, logStreamVars>>
nonEventStreamVars == <<processRegistry, futureVars, spawnVars, mailboxVars, strategyVars, envelopeVars, lifecycleVars, middlewareVars, receiveTimeoutVars, watchVars, reentryVars, logStreamVars>>
nonReceiveTimeoutVars == <<processRegistry, futureVars, spawnVars, mailboxVars, strategyVars, envelopeVars, lifecycleVars, middlewareVars, eventStreamVars, watchVars, reentryVars, logStreamVars>>
nonWatchVars == <<processRegistry, futureVars, spawnVars, mailboxVars, strategyVars, envelopeVars, lifecycleVars, middlewareVars, eventStreamVars, receiveTimeoutVars, reentryVars, logStreamVars>>
nonReentryVars == <<processRegistry, futureVars, spawnVars, mailboxVars, strategyVars, envelopeVars, lifecycleVars, middlewareVars, eventStreamVars, receiveTimeoutVars, watchVars, logStreamVars>>
nonLogStreamVars == <<processRegistry, futureVars, spawnVars, mailboxVars, strategyVars, envelopeVars, lifecycleVars, middlewareVars, eventStreamVars, receiveTimeoutVars, watchVars, reentryVars>>
\* ---- helpers --------------------------------------------------------------
Repeat(m, n) == [i \in 1..n |-> m]
Occurrences(s, x) == Cardinality({i \in 1..Len(s) : s[i] = x})

\* a runnable scheduled by send_user_message / send_system_message
Runnable(kind, m) == <<kind, m>>
Runnables == ({"user"} \X UserPayloads) \cup ({"system"} \X SystemPayloads)

\* ProcessRegistry.add_process(handle, name) -> (registry, pid, absent):
\* atomic insert-if-absent, the first insertion wins
AddProcess(reg, handle, name) ==
  IF reg[name] = NoProcess
    THEN [registry |-> [reg EXCEPT ![name] = handle], pid |-> name, absent |-> TRUE]
    ELSE [registry |-> reg, pid |-> name, absent |-> FALSE]

\* ---- ActorFuture ------------------------------------------------------------
\* send_to_pipes: the message is the error if there is one, else the result;
\* every PID of the list is sent it, and the list is cleared
PipeMessage(res, err) == IF err # None THEN err ELSE res

\* send_to_pipes without its inner.pipes.clear()
SendToPipes_NoClear(ps, res, err) ==
  /\ delivered' = [t \in PipePids |->
                     delivered[t] \o Repeat(PipeMessage(res, err), Occurrences(ps, t))]
  /\ pipes' = ps

SendToPipes(ps, res, err) ==
  /\ delivered' = [t \in PipePids |->
                     delivered[t] \o Repeat(PipeMessage(res, err), Occurrences(ps, t))]
  /\ pipes' = <<>>

\* run_completions draining the queue from its end
RunCompletions_Reversed(cs, res, err) ==
  /\ invoked' = invoked \o [i \in 1..Len(cs) |-> <<cs[Len(cs) + 1 - i], res, err>>]
  /\ completions' = <<>>

\* run_completions: drain the queue in order, each callback given (result, error)
RunCompletions(cs, res, err) ==
  /\ invoked' = invoked \o [i \in 1..Len(cs) |-> <<cs[i], res, err>>]
  /\ completions' = <<>>

\* Notify::notify_waiters: wakes the Notified futures that exist now, stores no permit
NotifyWaiters ==
  /\ notified' = notified \cup notifyWaiters
  /\ notifyWaiters' = {}

\* complete without its check of inner.done
Complete_NoGuard(m) ==
  /\ result' = m
  /\ done' = TRUE
  /\ error' = error
  /\ SendToPipes(pipes, m, error)
  /\ RunCompletions(completions, m, error)
  /\ NotifyWaiters
  /\ effective' = effective + 1

\* ActorFuture::complete
Complete(m) ==
  IF ~done
    THEN /\ result' = m
         /\ done' = TRUE
         /\ error' = error
         /\ SendToPipes(pipes, m, error)
         /\ RunCompletions(completions, m, error)
         /\ NotifyWaiters
         /\ effective' = effective + 1
    ELSE UNCHANGED <<done, result, error, pipes, completions, delivered, invoked,
                     notifyWaiters, notified, effective>>

\* ActorFuture::fail
Fail(e) ==
  IF ~done
    THEN /\ error' = e
         /\ done' = TRUE
         /\ result' = result
         /\ SendToPipes(pipes, result, e)
         /\ RunCompletions(completions, result, e)
         /\ NotifyWaiters
         /\ effective' = effective + 1
    ELSE UNCHANGED <<done, result, error, pipes, completions, delivered, invoked,
                     notifyWaiters, notified, effective>>

\* history: the call that took effect, <<source, argument>>
Resolves(source, arg) == resolvedBy' = IF done THEN resolvedBy ELSE <<source, arg>>

\* what complete and fail leave alone
CompletionFrame ==
  UNCHANGED <<nonFutureVars, pid, duration, timerPc, scheduled, callerPc, callerRet,
              processRegistry, reqPc, targetInbox, deadLetters, pipeCalls, registered>>

\* explicit ActorFutureProcess::complete(result) by some task
CallComplete(m) ==
  /\ ops < MaxOps
  /\ ops' = ops + 1
  /\ touched' = TRUE
  /\ Complete(m)
  /\ Resolves("complete", m)
  /\ CompletionFrame

\* explicit ActorFutureProcess::fail(error) by some task
CallFail(e) ==
  /\ ops < MaxOps
  /\ ops' = ops + 1
  /\ touched' = TRUE
  /\ Fail(e)
  /\ Resolves("fail", e)
  /\ CompletionFrame

\* ActorFuture::pipe_to
PipeTo(t) ==
  /\ ops < MaxOps
  /\ ops' = ops + 1
  /\ pipeCalls' = [pipeCalls EXCEPT ![t] = @ + 1]
  /\ IF done
       THEN SendToPipes(Append(pipes, t), result, error)
       ELSE /\ pipes' = Append(pipes, t)
            /\ delivered' = delivered
  /\ UNCHANGED <<nonFutureVars, pid, done, result, error, completions, notifyWaiters, notified,
                 duration, timerPc, scheduled, callerPc, callerRet,
                 processRegistry, reqPc, targetInbox, deadLetters,
                 invoked, registered, effective, resolvedBy, touched>>

\* ActorFuture::continue_with
ContinueWith(cb) ==
  /\ ops < MaxOps
  /\ ops' = ops + 1
  /\ registered' = Append(registered, <<cb, done>>)
  /\ IF done
       THEN /\ invoked' = Append(invoked, <<cb, result, error>>)
            /\ completions' = completions
       ELSE /\ completions' = Append(completions, cb)
            /\ invoked' = invoked
  /\ UNCHANGED <<nonFutureVars, pid, done, result, error, pipes, notifyWaiters, notified,
                 duration, timerPc, scheduled, callerPc, callerRet,
                 processRegistry, reqPc, targetInbox, deadLetters,
                 delivered, pipeCalls, effective, resolvedBy, touched>>

\* ---- ActorFutureProcess as a Process ----------------------------------------
\* the dispatcher's schedule(runnable): the runnable runs later, in no promised order
Schedule(r) == scheduled' = [scheduled EXCEPT ![r] = @ + 1]

\* Process::send_user_message: schedules the runnable that resolves the future
SendUserMessage(m) ==
  /\ Schedule(Runnable("user", m))
  /\ touched' = TRUE

\* Process::send_system_message
SendSystemMessage(m) ==
  /\ Schedule(Runnable("system", m))
  /\ touched' = TRUE

SendFrame ==
  UNCHANGED <<nonFutureVars, pid, done, result, error, pipes, completions, notifyWaiters, notified,
              duration, timerPc, callerPc, callerRet, processRegistry, reqPc,
              targetInbox, deadLetters, delivered, invoked, pipeCalls, registered,
              effective, resolvedBy>>

\* some process sends the future a user message
PostUser(m) ==
  /\ ops < MaxOps
  /\ ops' = ops + 1
  /\ SendUserMessage(m)
  /\ SendFrame

\* some process sends the future a system message
PostSystem(m) ==
  /\ ops < MaxOps
  /\ ops' = ops + 1
  /\ SendSystemMessage(m)
  /\ SendFrame

\* the user runnable without its DeadLetterResponse branch
UserRunnable_NoDeadLetterBranch(m) == Complete(m)

\* the runnable of send_user_message (future.rs 259-266)
UserRunnable(m) ==
  IF m = DeadLetterResponse THEN Fail(DeadLetterError) ELSE Complete(m)

\* the system runnable with the user runnable's DeadLetterResponse branch
SystemRunnable_DeadLetterBranch(m) ==
  IF m = DeadLetterResponse THEN Fail(DeadLetterError) ELSE Complete(m)

\* the runnable of send_system_message (future.rs 282-285)
SystemRunnable(m) == Complete(m)

\* the dispatcher runs a scheduled user-message runnable
RunUser(m) ==
  /\ scheduled[Runnable("user", m)] > 0
  /\ scheduled' = [scheduled EXCEPT ![Runnable("user", m)] = @ - 1]
  /\ UserRunnable(m)
  /\ Resolves("user", m)
  /\ UNCHANGED <<nonFutureVars, pid, duration, timerPc, callerPc, callerRet, processRegistry, reqPc,
                 targetInbox, deadLetters, pipeCalls, registered, ops, touched>>

\* the dispatcher runs a scheduled system-message runnable
RunSystem(m) ==
  /\ scheduled[Runnable("system", m)] > 0
  /\ scheduled' = [scheduled EXCEPT ![Runnable("system", m)] = @ - 1]
  /\ SystemRunnable(m)
  /\ Resolves("system", m)
  /\ UNCHANGED <<nonFutureVars, pid, duration, timerPc, callerPc, callerRet, processRegistry, reqPc,
                 targetInbox, deadLetters, pipeCalls, registered, ops, touched>>

\* ---- the timer task armed by ActorFutureProcess::new (future.rs 105-126) ------
\* the scheduled task starts: select! creates the Notified future and the sleep
TimerStart ==
  /\ timerPc = "scheduled"
  /\ timerPc' = "selecting"
  /\ notifyWaiters' = notifyWaiters \cup {TimerTask}
  /\ UNCHANGED <<nonFutureVars, pid, done, result, error, pipes, completions, notified, duration,
                 scheduled, callerPc, callerRet, processRegistry, reqPc, targetInbox,
                 deadLetters, delivered, invoked, pipeCalls, registered, effective, resolvedBy,
                 ops, touched>>

\* select!'s first branch: the task was notified, and ends
TimerNotified ==
  /\ timerPc = "selecting"
  /\ TimerTask \in notified
  /\ timerPc' = "completed"
  /\ notified' = notified \ {TimerTask}
  /\ UNCHANGED <<nonFutureVars, pid, done, result, error, pipes, completions, notifyWaiters, duration,
                 scheduled, callerPc, callerRet, processRegistry, reqPc, targetInbox,
                 deadLetters, delivered, invoked, pipeCalls, registered, effective, resolvedBy,
                 ops, touched>>

\* select!'s second branch: the sleep elapsed; the Notified future is dropped
TimerSleepElapsed ==
  /\ timerPc = "selecting"
  /\ timerPc' = "fail"
  /\ notifyWaiters' = notifyWaiters \ {TimerTask}
  /\ notified' = notified \ {TimerTask}
  /\ UNCHANGED <<nonFutureVars, pid, done, result, error, pipes, completions, duration,
                 scheduled, callerPc, callerRet, processRegistry, reqPc, targetInbox,
                 deadLetters, delivered, invoked, pipeCalls, registered, effective, resolvedBy,
                 ops, touched>>

\* handle_timeout, first half: self.fail(TimeoutError)
HandleTimeoutFail ==
  /\ timerPc = "fail"
  /\ timerPc' = "pipes"
  /\ Fail(TimeoutError)
  /\ Resolves("timeout", TimeoutError)
  /\ UNCHANGED <<nonFutureVars, pid, duration, scheduled, callerPc, callerRet, processRegistry, reqPc,
                 targetInbox, deadLetters, pipeCalls, registered, ops, touched>>

\* handle_timeout, second half: every PID still in pipes is sent the TimeoutError,
\* and pipes is cleared
HandleTimeoutPipes ==
  /\ timerPc = "pipes"
  /\ timerPc' = "finished"
  /\ delivered' = [t \in PipePids |->
                     delivered[t] \o Repeat(TimeoutError, Occurrences(pipes, t))]
  /\ pipes' = <<>>
  /\ UNCHANGED <<nonFutureVars, pid, done, result, error, completions, notifyWaiters, notified,
                 duration, scheduled, callerPc, callerRet, processRegistry, reqPc,
                 targetInbox, deadLetters, invoked, pipeCalls, registered, effective, resolvedBy,
                 ops, touched>>

\* ---- ActorFuture::result (future.rs 320-334) ----------------------------------
ResultFrame ==
  UNCHANGED <<nonFutureVars, pid, done, result, error, pipes, completions, duration, timerPc,
              scheduled, processRegistry, reqPc, targetInbox, deadLetters, delivered,
              invoked, pipeCalls, registered, effective, resolvedBy, ops, touched>>

\* a task calls result()
CallResult(c) ==
  /\ callerPc[c] = "idle"
  /\ callerPc' = [callerPc EXCEPT ![c] = "check"]
  /\ UNCHANGED <<callerRet, notifyWaiters, notified>>
  /\ ResultFrame

\* the value result() returns once done
ResultValue(res, err) == IF err # None THEN Err(err) ELSE Ok(res)

\* the loop's block: under the read lock, return if done; the lock is then released
ResultCheck(c) ==
  /\ callerPc[c] = "check"
  /\ IF done
       THEN /\ callerPc' = [callerPc EXCEPT ![c] = "returned"]
            /\ callerRet' = [callerRet EXCEPT ![c] = ResultValue(result, error)]
       ELSE /\ callerPc' = [callerPc EXCEPT ![c] = "unregistered"]
            /\ callerRet' = callerRet
  /\ UNCHANGED <<notifyWaiters, notified>>
  /\ ResultFrame

\* self.notify.notified(): the Notified future is created, after the lock's release
ResultRegister(c) ==
  /\ callerPc[c] = "unregistered"
  /\ callerPc' = [callerPc EXCEPT ![c] = "waiting"]
  /\ notifyWaiters' = notifyWaiters \cup {c}
  /\ UNCHANGED <<callerRet, notified>>
  /\ ResultFrame

\* .await on the Notified future returns once notify_waiters has woken it
ResultWake(c) ==
  /\ callerPc[c] = "waiting"
  /\ c \in notified
  /\ notified' = notified \ {c}
  /\ callerPc' = [callerPc EXCEPT ![c] = "check"]
  /\ UNCHANGED <<callerRet, notifyWaiters>>
  /\ ResultFrame

\* ---- request_future and the target ----------------------------------------------
\* request_future: the envelope sent to the target carries the future's PID as sender
RequestFuture ==
  /\ reqPc = "none"
  /\ reqPc' = "sent"
  /\ targetInbox' = Append(targetInbox, [payload |-> Ping, sender |-> pid])
  /\ UNCHANGED <<nonFutureVars, pid, done, result, error, pipes, completions, notifyWaiters, notified,
                 duration, timerPc, scheduled, callerPc, callerRet, processRegistry,
                 deadLetters, delivered, invoked, pipeCalls, registered, effective, resolvedBy,
                 ops, touched>>

\* the target handles the envelope and replies Pong to its sender: the registry
\* resolves the sender's PID to its process, or to the dead-letter process
TargetReply ==
  /\ targetInbox # <<>>
  /\ targetInbox' = Tail(targetInbox)
  /\ reqPc' = "replied"
  /\ IF processRegistry[Head(targetInbox).sender] = FutureProcess
       THEN /\ SendUserMessage(Pong)
            /\ deadLetters' = deadLetters
       ELSE /\ deadLetters' = deadLetters + 1
            /\ UNCHANGED <<scheduled, touched>>
  /\ UNCHANGED <<nonFutureVars, pid, done, result, error, pipes, completions, notifyWaiters, notified,
                 duration, timerPc, callerPc, callerRet, processRegistry,
                 delivered, invoked, pipeCalls, registered, effective, resolvedBy, ops>>

\* ---- ActorFutureProcess::new (future.rs 65-129) ----------------------------------
Durations == {0, 1}
RegistryBefore ==
  [n \in ProcessNames |-> IF n = TargetName THEN TargetProcess ELSE NoProcess]

\* a new() that schedules the timer task whatever the duration
ActorFutureProcessNew_AlwaysArmed(d) ==
  LET added == AddProcess(RegistryBefore, FutureProcess, FutureName(FutureId)) IN
  /\ processRegistry = added.registry
  /\ pid = added.pid
  /\ done = FALSE
  /\ result = None
  /\ error = None
  /\ pipes = <<>>
  /\ completions = <<>>
  /\ notifyWaiters = {}
  /\ notified = {}
  /\ duration = d
  /\ timerPc = "scheduled"

\* the state new() returns: the process is registered under future_<id>, its PID
\* stored, and the timer task scheduled when the duration is positive
ActorFutureProcessNew(d) ==
  LET added == AddProcess(RegistryBefore, FutureProcess, FutureName(FutureId)) IN
  /\ processRegistry = added.registry
  /\ pid = added.pid
  /\ done = FALSE
  /\ result = None
  /\ error = None
  /\ pipes = <<>>
  /\ completions = <<>>
  /\ notifyWaiters = {}
  /\ notified = {}
  /\ duration = d
  /\ timerPc = IF d > 0 THEN "scheduled" ELSE "none"

InitFuture ==
  /\ \E d \in Durations : ActorFutureProcessNew(d)
  /\ scheduled = [r \in Runnables |-> 0]
  /\ callerPc = [c \in Callers |-> "idle"]
  /\ callerRet = [c \in Callers |-> NotReturned]
  /\ reqPc = "none"
  /\ targetInbox = <<>>
  /\ deadLetters = 0
  /\ delivered = [t \in PipePids |-> <<>>]
  /\ invoked = <<>>
  /\ pipeCalls = [t \in PipePids |-> 0]
  /\ registered = <<>>
  /\ effective = 0
  /\ resolvedBy = NotResolved
  /\ ops = 0
  /\ touched = FALSE

\* what the environment does to the future
FutureEnv ==
  \/ \E m \in DirectPayloads : CallComplete(m)
  \/ \E e \in ActorFutureError : CallFail(e)
  \/ \E t \in PipePids : PipeTo(t)
  \/ \E cb \in Callbacks : ContinueWith(cb)
  \/ \E m \in UserPayloads : PostUser(m)
  \/ \E m \in SystemPayloads : PostSystem(m)
  \/ \E c \in Callers : CallResult(c)
  \/ RequestFuture
  \/ TargetReply

\* what the dispatcher's tasks do
FutureTasks ==
  \/ \E m \in UserPayloads : RunUser(m)
  \/ \E m \in SystemPayloads : RunSystem(m)
  \/ TimerStart
  \/ TimerNotified
  \/ TimerSleepElapsed
  \/ HandleTimeoutFail
  \/ HandleTimeoutPipes
  \/ \E c \in Callers : ResultCheck(c)
  \/ \E c \in Callers : ResultRegister(c)
  \/ \E c \in Callers : ResultWake(c)

NextFuture == FutureEnv \/ FutureTasks

\* ---- the mailbox's latch ---------------------------------------------------------
\* schedule(): only a successful idle -> scheduled transition of the latch submits
\* the mailbox to the dispatcher
MailboxSchedule(s) ==
  IF latch[s] = "idle"
    THEN /\ latch' = [latch EXCEPT ![s] = "scheduled"]
         /\ submitted' = [submitted EXCEPT ![s] = @ + 1]
    ELSE UNCHANGED <<latch, submitted>>

\* ---- DEFAULT_SPAWNER (props.rs 75-144) -----------------------------------------
ActorError == <<"ActorError", 0>>
ErrNameExists(p) == <<"ErrNameExists", p>>
ErrPreStart(e) == <<"ErrPreStart", e>>
ActorProcess(s) == <<"process", s>>

SpawnStep(s, from, to) ==
  /\ spawnPc[s] = from
  /\ spawnPc' = [spawnPc EXCEPT ![s] = to]

\* Props::spawn(system, name, parent): the context and the mailbox are created
SpawnCall(s, n) ==
  /\ SpawnStep(s, "idle", "add_process")
  /\ spawnName' = [spawnName EXCEPT ![s] = n]
  /\ UNCHANGED <<nonSpawnVars, mailboxVars, processRegistry, spawnPid, spawnRet, selfPid, initRun, handlers,
                 invokedUser, systemMailbox, mailboxStarted>>

\* the spawner without its `if !absent { return Err(ErrNameExists) }`
SpawnAddProcess_IgnoreAbsent(s) ==
  LET added == AddProcess(processRegistry, ActorProcess(s), spawnName[s]) IN
  /\ spawnPc[s] = "add_process"
  /\ processRegistry' = added.registry
  /\ spawnPid' = [spawnPid EXCEPT ![s] = added.pid]
  /\ spawnPc' = [spawnPc EXCEPT ![s] = "set_self"]
  /\ spawnRet' = spawnRet
  /\ UNCHANGED <<nonSpawnVars, mailboxVars, spawnName, selfPid, initRun, handlers, invokedUser, systemMailbox,
                 mailboxStarted>>

\* pr.add_process(proc_handle, &name); a name already taken ends the spawn
SpawnAddProcess(s) ==
  LET added == AddProcess(processRegistry, ActorProcess(s), spawnName[s]) IN
  /\ spawnPc[s] = "add_process"
  /\ processRegistry' = added.registry
  /\ IF ~added.absent
       THEN /\ spawnRet' = [spawnRet EXCEPT ![s] = ErrNameExists(added.pid)]
            /\ spawnPc' = [spawnPc EXCEPT ![s] = "done"]
            /\ spawnPid' = spawnPid
       ELSE /\ spawnPid' = [spawnPid EXCEPT ![s] = added.pid]
            /\ spawnPc' = [spawnPc EXCEPT ![s] = "set_self"]
            /\ spawnRet' = spawnRet
  /\ UNCHANGED <<nonSpawnVars, mailboxVars, spawnName, selfPid, initRun, handlers, invokedUser, systemMailbox,
                 mailboxStarted>>

\* a spawner that goes on to the hooks with self_pid not set
SpawnSetSelf_NotSet(s) ==
  /\ SpawnStep(s, "set_self", "initialize")
  /\ UNCHANGED <<nonSpawnVars, mailboxVars, processRegistry, spawnName, spawnPid, spawnRet, selfPid, initRun,
                 handlers, invokedUser, systemMailbox, mailboxStarted>>

\* ctx.set_self(pid)
SpawnSetSelf(s) ==
  /\ SpawnStep(s, "set_self", "initialize")
  /\ selfPid' = [selfPid EXCEPT ![s] = spawnPid[s]]
  /\ UNCHANGED <<nonSpawnVars, mailboxVars, processRegistry, spawnName, spawnPid, spawnRet, initRun, handlers,
                 invokedUser, systemMailbox, mailboxStarted>>

\* initialize(props, ctx): every on_init hook runs, in the list's order
Initialize(s) ==
  /\ SpawnStep(s, "initialize", "register_handlers")
  /\ initRun' = [initRun EXCEPT ![s] = @ \o OnInit]
  /\ UNCHANGED <<nonSpawnVars, mailboxVars, processRegistry, spawnName, spawnPid, spawnRet, selfPid, handlers,
                 invokedUser, systemMailbox, mailboxStarted>>

\* mb.register_handlers(invoker, dispatcher)
SpawnRegisterHandlers(s) ==
  /\ SpawnStep(s, "register_handlers", "pre_start")
  /\ handlers' = [handlers EXCEPT ![s] = TRUE]
  /\ UNCHANGED <<nonSpawnVars, mailboxVars, processRegistry, spawnName, spawnPid, spawnRet, selfPid, initRun,
                 invokedUser, systemMailbox, mailboxStarted>>

\* mi.invoke_user_message(PreStart), which the actor answers with Ok or an error;
\* an error ends the spawn with ErrPreStart
SpawnInvokePreStart(s, ok) ==
  /\ spawnPc[s] = "pre_start"
  /\ invokedUser' = [invokedUser EXCEPT ![s] = Append(@, PreStart)]
  /\ IF ~ok
       THEN /\ spawnRet' = [spawnRet EXCEPT ![s] = ErrPreStart(ActorError)]
            /\ spawnPc' = [spawnPc EXCEPT ![s] = "done"]
       ELSE /\ spawnPc' = [spawnPc EXCEPT ![s] = "post_start"]
            /\ spawnRet' = spawnRet
  /\ UNCHANGED <<nonSpawnVars, mailboxVars, processRegistry, spawnName, spawnPid, selfPid, initRun, handlers,
                 systemMailbox, mailboxStarted>>

\* mb.post_system_message(SystemMessage::Start): the message is enqueued ...
SpawnPostStart(s) ==
  /\ SpawnStep(s, "post_start", "post_start_schedule")
  /\ systemMailbox' = [systemMailbox EXCEPT ![s] = Append(@, Start)]
  /\ sysQueue' = [sysQueue EXCEPT ![s] = Append(@, Start)]
  /\ UNCHANGED <<nonSpawnVars, processRegistry, spawnName, spawnPid, spawnRet, selfPid, initRun,
                 handlers, invokedUser, mailboxStarted>>
  /\ UNCHANGED <<userQueue, latch, suspended, submitted, liveTurns, turnPc, turnCount, rechecks,
                 userPosted, sysPosted, userPostPc, sysPostPc, invokedSystem, escalated>>

\* ... and the mailbox is scheduled
SpawnScheduleStart(s) ==
  /\ SpawnStep(s, "post_start_schedule", "mailbox_start")
  /\ MailboxSchedule(s)
  /\ UNCHANGED <<nonSpawnVars, processRegistry, spawnName, spawnPid, spawnRet, selfPid, initRun,
                 handlers, invokedUser, systemMailbox, mailboxStarted>>
  /\ UNCHANGED <<userQueue, sysQueue, suspended, liveTurns, turnPc, turnCount, rechecks,
                 userPosted, sysPosted, userPostPc, sysPostPc, invokedSystem, escalated>>

\* mb.start(), the initial schedule, then Ok(pid)
SpawnMailboxStart(s) ==
  /\ SpawnStep(s, "mailbox_start", "done")
  /\ MailboxSchedule(s)
  /\ mailboxStarted' = [mailboxStarted EXCEPT ![s] = TRUE]
  /\ spawnRet' = [spawnRet EXCEPT ![s] = Ok(spawnPid[s])]
  /\ UNCHANGED <<nonSpawnVars, processRegistry, spawnName, spawnPid, selfPid, initRun, handlers,
                 invokedUser, systemMailbox>>
  /\ UNCHANGED <<userQueue, sysQueue, suspended, liveTurns, turnPc, turnCount, rechecks,
                 userPosted, sysPosted, userPostPc, sysPostPc, invokedSystem, escalated>>

InitSpawn ==
  /\ spawnPc = [s \in SpawnIds |-> "idle"]
  /\ spawnName = [s \in SpawnIds |-> NoPid]
  /\ spawnPid = [s \in SpawnIds |-> NoPid]
  /\ spawnRet = [s \in SpawnIds |-> NotSpawned]
  /\ selfPid = [s \in SpawnIds |-> NoPid]
  /\ initRun = [s \in SpawnIds |-> <<>>]
  /\ handlers = [s \in SpawnIds |-> FALSE]
  /\ invokedUser = [s \in SpawnIds |-> <<>>]
  /\ systemMailbox = [s \in SpawnIds |-> <<>>]
  /\ mailboxStarted = [s \in SpawnIds |-> FALSE]

\* a mailbox as its producer makes it
InitMailbox ==
  /\ userQueue = [s \in SpawnIds |-> <<>>]
  /\ sysQueue = [s \in SpawnIds |-> <<>>]
  /\ latch = [s \in SpawnIds |-> "idle"]
  /\ suspended = [s \in SpawnIds |-> FALSE]
  /\ submitted = [s \in SpawnIds |-> 0]
  /\ liveTurns = [s \in SpawnIds |-> 0]
  /\ turnPc = [s \in SpawnIds |-> "none"]
  /\ turnCount = [s \in SpawnIds |-> 0]
  /\ rechecks = [s \in SpawnIds |-> 0]
  /\ userPosted = [s \in SpawnIds |-> 0]
  /\ sysPosted = [s \in SpawnIds |-> 0]
  /\ userPostPc = [s \in SpawnIds |-> None]
  /\ sysPostPc = [s \in SpawnIds |-> None]
  /\ invokedSystem = [s \in SpawnIds |-> <<>>]
  /\ escalated = [s \in SpawnIds |-> <<>>]

NextSpawn ==
  \/ \E s \in SpawnIds, n \in ActorNames : SpawnCall(s, n)
  \/ \E s \in SpawnIds : SpawnAddProcess(s)
  \/ \E s \in SpawnIds : SpawnSetSelf(s)
  \/ \E s \in SpawnIds : Initialize(s)
  \/ \E s \in SpawnIds : SpawnRegisterHandlers(s)
  \/ \E s \in SpawnIds, ok \in BOOLEAN : SpawnInvokePreStart(s, ok)
  \/ \E s \in SpawnIds : SpawnPostStart(s)
  \/ \E s \in SpawnIds : SpawnScheduleStart(s)
  \/ \E s \in SpawnIds : SpawnMailboxStart(s)

\* ---- the mailbox: posts ---------------------------------------------------------
\* what the mailbox's operations leave alone outside the mailbox and the invoker
MailboxFrame ==
  UNCHANGED <<processRegistry, futureVars, logStreamVars, reentryVars, watchVars, receiveTimeoutVars, eventStreamVars, middlewareVars, lifecycleVars, envelopeVars, strategyVars, spawnPc, spawnName, spawnPid, spawnRet, selfPid,
              initRun, handlers, systemMailbox, mailboxStarted>>

\* a sender reaches the actor's mailbox once the registry resolves its PID to the
\* actor's process, and the mailbox can be scheduled once its handlers are bound
SenderResolves(s) ==
  /\ spawnName[s] # NoPid
  /\ processRegistry[spawnName[s]] = ActorProcess(s)
  /\ handlers[s]

\* post_user_message(m): the message is enqueued ...
PostUserEnqueue(s) ==
  /\ SenderResolves(s)
  /\ userPostPc[s] = None
  /\ userPosted[s] < MaxUserPosts
  /\ userPosted' = [userPosted EXCEPT ![s] = @ + 1]
  /\ userQueue' = [userQueue EXCEPT ![s] = Append(@, SenderMessages[userPosted[s] + 1])]
  /\ userPostPc' = [userPostPc EXCEPT ![s] = SenderMessages[userPosted[s] + 1]]
  /\ UNCHANGED <<invokedUser, sysQueue, latch, suspended, submitted, liveTurns, turnPc,
                 turnCount, rechecks, sysPosted, sysPostPc, invokedSystem, escalated>>
  /\ MailboxFrame

\* ... and the mailbox is scheduled
PostUserSchedule(s) ==
  /\ userPostPc[s] # None
  /\ userPostPc' = [userPostPc EXCEPT ![s] = None]
  /\ MailboxSchedule(s)
  /\ UNCHANGED <<invokedUser, userQueue, sysQueue, suspended, liveTurns, turnPc,
                 turnCount, rechecks, userPosted, sysPosted, sysPostPc, invokedSystem, escalated>>
  /\ MailboxFrame

\* post_system_message(m): the message is enqueued ...
PostSystemEnqueue(s, m) ==
  /\ SenderResolves(s)
  /\ sysPostPc[s] = None
  /\ sysPosted[s] < MaxSysPosts
  /\ sysPosted' = [sysPosted EXCEPT ![s] = @ + 1]
  /\ sysQueue' = [sysQueue EXCEPT ![s] = Append(@, m)]
  /\ sysPostPc' = [sysPostPc EXCEPT ![s] = m]
  /\ UNCHANGED <<invokedUser, userQueue, latch, suspended, submitted, liveTurns, turnPc,
                 turnCount, rechecks, userPosted, userPostPc, invokedSystem, escalated>>
  /\ MailboxFrame

\* ... and the mailbox is scheduled
PostSystemSchedule(s) ==
  /\ sysPostPc[s] # None
  /\ sysPostPc' = [sysPostPc EXCEPT ![s] = None]
  /\ MailboxSchedule(s)
  /\ UNCHANGED <<invokedUser, userQueue, sysQueue, suspended, liveTurns, turnPc,
                 turnCount, rechecks, userPosted, sysPosted, userPostPc, invokedSystem, escalated>>
  /\ MailboxFrame

\* ---- the mailbox: the dispatch turn (process_messages) ----------------------------
\* the dispatcher begins a submitted turn: the latch goes to processing
TurnBegin(s) ==
  /\ submitted[s] > 0
  /\ submitted' = [submitted EXCEPT ![s] = @ - 1]
  /\ liveTurns' = [liveTurns EXCEPT ![s] = @ + 1]
  /\ IF turnPc[s] = "none"
       THEN /\ latch' = [latch EXCEPT ![s] = "processing"]
            /\ turnPc' = [turnPc EXCEPT ![s] = "system"]
            /\ turnCount' = [turnCount EXCEPT ![s] = 0]
       ELSE UNCHANGED <<latch, turnPc, turnCount>>
  /\ UNCHANGED <<invokedUser, userQueue, sysQueue, suspended, rechecks, userPosted, sysPosted,
                 userPostPc, sysPostPc, invokedSystem, escalated>>
  /\ MailboxFrame

\* invoke_system_message(m); for Start the invoker delivers PostStart to the actor
InvokeSystemMessage(s, m) ==
  /\ invokedSystem' = [invokedSystem EXCEPT ![s] = Append(@, m)]
  /\ invokedUser' = [invokedUser EXCEPT ![s] = IF m = Start THEN Append(@, PostStart) ELSE @]

\* step 1: one system message is taken from the queue and invoked; Suspend and
\* Resume toggle the suspended flag
TurnSystem(s) ==
  /\ turnPc[s] = "system"
  /\ sysQueue[s] # <<>>
  /\ sysQueue' = [sysQueue EXCEPT ![s] = Tail(@)]
  /\ InvokeSystemMessage(s, Head(sysQueue[s]))
  /\ suspended' = [suspended EXCEPT ![s] =
                     IF Head(sysQueue[s]) = SuspendMailbox THEN TRUE
                     ELSE IF Head(sysQueue[s]) = ResumeMailbox THEN FALSE ELSE @]
  /\ UNCHANGED <<userQueue, latch, submitted, liveTurns, turnPc, turnCount, rechecks, userPosted,
                 sysPosted, userPostPc, sysPostPc, escalated>>
  /\ MailboxFrame

\* a mailbox that delivers user messages whether or not it is suspended
UserProcessingEnabled_Always(s) == TRUE

\* step 2's test
UserProcessingEnabled(s) == ~suspended[s]

\* step 2: the turn has found the system queue empty; a suspended mailbox goes on
\* to return, otherwise the turn goes on to the user messages
TurnSystemDrained(s) ==
  /\ turnPc[s] = "system"
  /\ sysQueue[s] = <<>>
  /\ turnPc' = [turnPc EXCEPT ![s] = IF UserProcessingEnabled(s) THEN "user" ELSE "suspended"]
  /\ UNCHANGED <<invokedUser, userQueue, sysQueue, latch, suspended, submitted, liveTurns,
                 turnCount, rechecks, userPosted, sysPosted, userPostPc, sysPostPc,
                 invokedSystem, escalated>>
  /\ MailboxFrame

\* step 2, suspended: the latch is set to idle and the turn returns
TurnSuspendedReturn(s) ==
  /\ turnPc[s] = "suspended"
  /\ turnPc' = [turnPc EXCEPT ![s] = "none"]
  /\ latch' = [latch EXCEPT ![s] = "idle"]
  /\ liveTurns' = [liveTurns EXCEPT ![s] = @ - 1]
  /\ UNCHANGED <<invokedUser, userQueue, sysQueue, suspended, submitted, turnCount, rechecks,
                 userPosted, sysPosted, userPostPc, sysPostPc, invokedSystem, escalated>>
  /\ MailboxFrame

\* a user queue that hands out its newest message
UserDequeue_Last(q) == [message |-> q[Len(q)], rest |-> SubSeq(q, 1, Len(q) - 1)]

\* the user queue hands out its oldest message
UserDequeue(q) == [message |-> Head(q), rest |-> Tail(q)]

\* escalate_failure that leaves the mailbox enabled
EscalateFailure_NoSuspend(s, reason, m) ==
  /\ escalated' = [escalated EXCEPT ![s] = Append(@, <<reason, m>>)]
  /\ suspended' = suspended

\* escalate_failure(reason, m): the failure is reported, and the mailbox delivers
\* no user message until it is re-enabled
EscalateFailure(s, reason, m) ==
  /\ escalated' = [escalated EXCEPT ![s] = Append(@, <<reason, m>>)]
  /\ suspended' = [suspended EXCEPT ![s] = TRUE]

\* step 3: one user message is taken from the queue and invoked; a failed
\* invocation is escalated, and the turn goes back to the system messages
TurnUser(s, ok) ==
  LET d == UserDequeue(userQueue[s]) IN
  /\ turnPc[s] = "user"
  /\ userQueue[s] # <<>>
  /\ turnCount[s] < Throughput
  /\ userQueue' = [userQueue EXCEPT ![s] = d.rest]
  /\ invokedUser' = [invokedUser EXCEPT ![s] = Append(@, d.message)]
  /\ turnCount' = [turnCount EXCEPT ![s] = @ + 1]
  /\ IF ok
       THEN UNCHANGED <<escalated, suspended, turnPc>>
       ELSE /\ EscalateFailure(s, ReceiveError, d.message)
            /\ turnPc' = [turnPc EXCEPT ![s] = "system"]
  /\ UNCHANGED <<sysQueue, latch, submitted, liveTurns, rechecks, userPosted, sysPosted,
                 userPostPc, sysPostPc, invokedSystem>>
  /\ MailboxFrame

\* step 3 ends: the user queue is empty or the throughput is used up
TurnUserDone(s) ==
  /\ turnPc[s] = "user"
  /\ userQueue[s] = <<>> \/ turnCount[s] >= Throughput
  /\ turnPc' = [turnPc EXCEPT ![s] = "release"]
  /\ UNCHANGED <<invokedUser, userQueue, sysQueue, latch, suspended, submitted, liveTurns,
                 turnCount, rechecks, userPosted, sysPosted, userPostPc, sysPostPc, invokedSystem,
                 escalated>>
  /\ MailboxFrame

\* step 4, first half: the latch is released; what is left of the turn is its look
\* at the queues
TurnRelease(s) ==
  /\ turnPc[s] = "release"
  /\ latch' = [latch EXCEPT ![s] = "idle"]
  /\ turnPc' = [turnPc EXCEPT ![s] = "none"]
  /\ liveTurns' = [liveTurns EXCEPT ![s] = @ - 1]
  /\ rechecks' = [rechecks EXCEPT ![s] = @ + 1]
  /\ UNCHANGED <<invokedUser, userQueue, sysQueue, suspended, submitted,
                 turnCount, userPosted, sysPosted, userPostPc, sysPostPc, invokedSystem,
                 escalated>>
  /\ MailboxFrame

\* step 4, second half: if either queue is non-empty the mailbox is re-scheduled
TurnRecheck(s) ==
  /\ rechecks[s] > 0
  /\ rechecks' = [rechecks EXCEPT ![s] = @ - 1]
  /\ IF sysQueue[s] # <<>> \/ userQueue[s] # <<>>
       THEN MailboxSchedule(s)
       ELSE UNCHANGED <<latch, submitted>>
  /\ UNCHANGED <<invokedUser, userQueue, sysQueue, suspended, liveTurns, turnPc, turnCount,
                 userPosted, sysPosted, userPostPc, sysPostPc, invokedSystem, escalated>>
  /\ MailboxFrame

\* one actor: its spawn, the senders of its mailbox and the mailbox's turns
NextMailbox ==
  \/ \E s \in MailboxActors, n \in MailboxActorNames : SpawnCall(s, n)
  \/ \E s \in MailboxActors : SpawnAddProcess(s)
  \/ \E s \in MailboxActors : SpawnSetSelf(s)
  \/ \E s \in MailboxActors : Initialize(s)
  \/ \E s \in MailboxActors : SpawnRegisterHandlers(s)
  \/ \E s \in MailboxActors, ok \in BOOLEAN : SpawnInvokePreStart(s, ok)
  \/ \E s \in MailboxActors : SpawnPostStart(s)
  \/ \E s \in MailboxActors : SpawnScheduleStart(s)
  \/ \E s \in MailboxActors : SpawnMailboxStart(s)
  \/ \E s \in MailboxActors : PostUserEnqueue(s)
  \/ \E s \in MailboxActors : PostUserSchedule(s)
  \/ \E s \in MailboxActors, m \in PostedSystemMessages : PostSystemEnqueue(s, m)
  \/ \E s \in MailboxActors : PostSystemSchedule(s)
  \/ \E s \in MailboxActors : TurnBegin(s)
  \/ \E s \in MailboxActors : TurnSystem(s)
  \/ \E s \in MailboxActors : TurnSystemDrained(s)
  \/ \E s \in MailboxActors : TurnSuspendedReturn(s)
  \/ \E s \in MailboxActors, ok \in BOOLEAN : TurnUser(s, ok)
  \/ \E s \in MailboxActors : TurnUserDone(s)
  \/ \E s \in MailboxActors : TurnRelease(s)
  \/ \E s \in MailboxActors : TurnRecheck(s)

\* ---- OneForOneStrategy (strategy_on_for_one.rs) --------------------------------------
\* Directive
DirectiveResume == "Directive::Resume"
DirectiveRestart == "Directive::Restart"
DirectiveStop == "Directive::Stop"
DirectiveEscalate == "Directive::Escalate"

\* the reasons a child fails with, and a decider that tells them apart
Reasons == {"resumable", "restartable", "fatal", "unknown"}
Decider(reason) ==
  CASE reason = "resumable" -> DirectiveResume
    [] reason = "restartable" -> DirectiveRestart
    [] reason = "fatal" -> DirectiveStop
    [] OTHER -> DirectiveEscalate

\* the supervised child, and the message it failed on
Child == <<"child", 1>>
FailedMessage == "m"

\* the windows a strategy is built with, in clock units
Windows == {1, 2}

\* RestartStatistics: the failure timestamps, oldest first
RestartStatisticsNew == <<>>
\* fail(): the present time is added
RestartStatisticsFail(rs) == Append(rs, clock)
\* reset(): the timestamps are dropped
RestartStatisticsReset(rs) == <<>>
\* the entries of rs newer than t - window
FailuresWithin(rs, window, t) == Cardinality({i \in 1..Len(rs) : rs[i] > t - window})
\* number_of_failures(window): the entries newer than now - window
NumberOfFailures(rs, window) == FailuresWithin(rs, window, clock)

\* should_stop without the case of max_retries = 0
ShouldStop_NoZeroCase(rs) ==
  LET failed == RestartStatisticsFail(rs) IN
  IF NumberOfFailures(failed, within_duration) > max_retries
    THEN [stop |-> TRUE, rs |-> RestartStatisticsReset(failed)]
    ELSE [stop |-> FALSE, rs |-> failed]

\* should_stop that leaves the statistics as they are after the failure
ShouldStop_NoReset(rs) ==
  IF max_retries = 0
    THEN [stop |-> TRUE, rs |-> rs]
    ELSE LET failed == RestartStatisticsFail(rs) IN
         IF NumberOfFailures(failed, within_duration) > max_retries
           THEN [stop |-> TRUE, rs |-> failed]
           ELSE [stop |-> FALSE, rs |-> failed]

\* should_stop(&mut rs): the returned flag, and rs as the call leaves it
ShouldStop(rs) ==
  IF max_retries = 0
    THEN [stop |-> TRUE, rs |-> rs]
    ELSE LET failed == RestartStatisticsFail(rs) IN
         IF NumberOfFailures(failed, within_duration) > max_retries
           THEN [stop |-> TRUE, rs |-> RestartStatisticsReset(failed)]
           ELSE [stop |-> FALSE, rs |-> failed]

\* another child of the same supervisor
Sibling == <<"child", 2>>

\* a supervisor call that takes in the sibling as well
SupervisorCall_WithSibling(operation, argument) ==
  [operation |-> operation,
   argument |-> IF operation = "escalate_failure" THEN argument ELSE Append(argument, Sibling)]

\* one call of the supervisor, or of its escalation
SupervisorCall(operation, argument) == [operation |-> operation, argument |-> argument]

\* the one call handle_failure makes on the supervisor: the match on the directive
HandleFailureCall(child, rs, reason, message) ==
  LET directive == Decider(reason)
      stopping == ShouldStop(rs)
  IN CASE directive = DirectiveResume -> SupervisorCall("resume_children", <<child>>)
       [] directive = DirectiveRestart ->
            IF stopping.stop THEN SupervisorCall("stop_children", <<child>>)
                             ELSE SupervisorCall("restart_children", <<child>>)
       [] directive = DirectiveStop -> SupervisorCall("stop_children", <<child>>)
       [] OTHER -> SupervisorCall("escalate_failure", <<reason, message>>)

\* handle_failure(actor_system, supervisor, child, rs, reason, message): rs is the
\* function's own value; what the call does to it ends with the call, and the
\* statistics the child's next report carries are the ones this report carried
HandleFailure(child, reason) ==
  LET directive == Decider(reason)
      rs == restartStats
      stopping == ShouldStop(rs)
      call == HandleFailureCall(child, rs, reason, FailedMessage)
  IN
  /\ Len(handled) < MaxFailures
  /\ handled' = Append(handled,
                       [reason |-> reason, directive |-> directive, call |-> call, at |-> clock,
                        given |-> rs,
                        rs |-> IF directive = DirectiveRestart THEN stopping.rs ELSE rs])
  /\ UNCHANGED <<max_retries, within_duration, clock, restartStats>>
  /\ UNCHANGED nonStrategyVars

\* time passes
Tick ==
  /\ clock < MaxTime
  /\ clock' = clock + 1
  /\ UNCHANGED <<max_retries, within_duration, restartStats, handled>>
  /\ UNCHANGED nonStrategyVars

\* OneForOneStrategy::new(max_retries, within_duration, decider)
OneForOneStrategyNew(n, d) ==
  /\ max_retries = n
  /\ within_duration = d

\* a strategy, a child with some failures on record, no failure handled yet
InitStrategy ==
  /\ \E n \in 0..MaxRetries, d \in Windows : OneForOneStrategyNew(n, d)
  /\ clock = 0
  /\ \E k \in 0..MaxRecorded : restartStats = Repeat(0, k)
  /\ handled = <<>>

\* the strategy of the sections that do not supervise: nothing on record
InitNoFailures ==
  /\ OneForOneStrategyNew(MaxRetries, 1)
  /\ clock = 0
  /\ restartStats = RestartStatisticsNew
  /\ handled = <<>>

NextStrategy ==
  \/ \E reason \in Reasons : HandleFailure(Child, reason)
  \/ Tick

\* ---- MessageEnvelope (message_envelope.rs) ------------------------------------------
\* Option
OptionNone == <<>>
OptionSome(x) == <<x>>

\* messages that are no envelope, header keys and values, senders
PlainMessages == {[kind |-> "message", value |-> "hello"], [kind |-> "message", value |-> "world"]}
HeaderKeys == {"k1", "k2"}
HeaderValues == {"v1", "v2"}
EnvelopeSenders == {<<"sender", 1>>}

\* MessageHeaders: a map from keys to values, as the set of its pairs
MessageHeadersNew == {}
MessageHeadersSet(h, key, value) == {kv \in h : kv[1] # key} \cup {<<key, value>>}

\* the headers an envelope is given whole
EnvelopeHeaders == {MessageHeadersNew, MessageHeadersSet(MessageHeadersNew, "k1", "v1")}

\* message.as_any().downcast_ref::<MessageEnvelope>(): the handle gives the message
\* it holds, and the downcast succeeds when that message is an envelope
DowncastEnvelope(message) ==
  IF message.kind = "envelope" THEN OptionSome(message) ELSE OptionNone

\* MessageEnvelope::new(message)
MessageEnvelopeNew(message) ==
  [kind |-> "envelope", header |-> OptionNone, message |-> message, sender |-> OptionNone]

\* with_header, with_sender
WithHeader(envelope, header) == [envelope EXCEPT !.header = OptionSome(header)]
WithSender(envelope, sender) == [envelope EXCEPT !.sender = OptionSome(sender)]

\* set_header(key, value)
SetHeader(envelope, key, value) ==
  LET h == IF envelope.header = OptionNone THEN MessageHeadersNew ELSE envelope.header[1] IN
  [envelope EXCEPT !.header = OptionSome(MessageHeadersSet(h, key, value))]

\* a wrap_envelope that makes a new envelope around whatever it is given
WrapEnvelope_AlwaysNew(message) == MessageEnvelopeNew(message)

\* wrap_envelope(message)
WrapEnvelope(message) ==
  LET envelope == DowncastEnvelope(message) IN
  IF envelope # OptionNone THEN envelope[1] ELSE MessageEnvelopeNew(message)

\* an unwrap_envelope that takes whatever it is given for a plain message
UnwrapEnvelope_Plain(message) == <<OptionNone, message, OptionNone>>

\* unwrap_envelope(message): (header, message, sender)
UnwrapEnvelope(message) ==
  LET envelope == DowncastEnvelope(message) IN
  IF envelope # OptionNone
    THEN <<envelope[1].header, envelope[1].message, envelope[1].sender>>
    ELSE <<OptionNone, message, OptionNone>>

\* the holder of the message makes an envelope of it by hand (a plain message only:
\* the model keeps envelopes one level deep unless wrap_envelope nests them)
EnvelopeNew ==
  /\ envWrapped = <<>>
  /\ envMessage.kind = "message"
  /\ envMessage' = MessageEnvelopeNew(envMessage)
  /\ UNCHANGED <<envWrapped, envUnwrapped, envBuilt>>
  /\ UNCHANGED nonEnvelopeVars

EnvelopeWithHeader(header) ==
  /\ envWrapped = <<>>
  /\ envUnwrapped = OptionNone
  /\ envMessage.kind = "envelope"
  /\ envMessage.header = OptionNone
  /\ envMessage' = WithHeader(envMessage, header)
  /\ envBuilt' = [envBuilt EXCEPT ![1] = OptionSome(header)]
  /\ UNCHANGED <<envWrapped, envUnwrapped>>
  /\ UNCHANGED nonEnvelopeVars

EnvelopeWithSender(sender) ==
  /\ envWrapped = <<>>
  /\ envMessage.kind = "envelope"
  /\ envMessage.sender = OptionNone
  /\ envMessage' = WithSender(envMessage, sender)
  /\ envBuilt' = [envBuilt EXCEPT ![3] = OptionSome(sender)]
  /\ UNCHANGED <<envWrapped, envUnwrapped>>
  /\ UNCHANGED nonEnvelopeVars

EnvelopeSetHeader(key, value) ==
  /\ envWrapped = <<>>
  /\ envMessage.kind = "envelope"
  /\ envMessage' = SetHeader(envMessage, key, value)
  /\ envMessage' # envMessage
  /\ envBuilt' = [envBuilt EXCEPT ![1] = envMessage'.header]
  /\ UNCHANGED <<envWrapped, envUnwrapped>>
  /\ UNCHANGED nonEnvelopeVars

\* wrap_envelope is called on the message, or on the envelope the last call returned
EnvelopeWrap ==
  /\ Len(envWrapped) < MaxWraps
  /\ envWrapped' = Append(envWrapped,
                          WrapEnvelope(IF envWrapped = <<>> THEN envMessage
                                       ELSE envWrapped[Len(envWrapped)]))
  /\ UNCHANGED <<envMessage, envUnwrapped, envBuilt>>
  /\ UNCHANGED nonEnvelopeVars

\* unwrap_envelope is called on the message, or on the envelope the last wrap_envelope
\* returned
EnvelopeUnwrap ==
  /\ envUnwrapped = OptionNone
  /\ envUnwrapped' = OptionSome(UnwrapEnvelope(IF envWrapped = <<>> THEN envMessage
                                                ELSE envWrapped[Len(envWrapped)]))
  /\ UNCHANGED <<envMessage, envWrapped, envBuilt>>
  /\ UNCHANGED nonEnvelopeVars

InitEnvelope ==
  /\ envMessage \in PlainMessages
  /\ envWrapped = <<>>
  /\ envUnwrapped = OptionNone
  /\ envBuilt = <<OptionNone, envMessage, OptionNone>>

\* the message of the sections that wrap nothing
InitNoEnvelope ==
  /\ envMessage = [kind |-> "message", value |-> "hello"]
  /\ envWrapped = <<>>
  /\ envUnwrapped = OptionNone
  /\ envBuilt = <<OptionNone, envMessage, OptionNone>>

NextEnvelope ==
  \/ EnvelopeNew
  \/ \E header \in EnvelopeHeaders : EnvelopeWithHeader(header)
  \/ \E sender \in EnvelopeSenders : EnvelopeWithSender(sender)
  \/ \E key \in HeaderKeys, value \in HeaderValues : EnvelopeSetHeader(key, value)
  \/ EnvelopeWrap
  \/ EnvelopeUnwrap

\* ---- the actor lifecycle (ActorContext as MessageInvoker, the registry) ---------------
\* a supervisor and its two children
Parent == <<"parent", 1>>
Children == {Child, Sibling}
LifecycleActors == {Parent} \cup Children
ParentOf(a) == IF a \in Children THEN Parent ELSE NoPid

\* lifecycle states
Alive == "Alive"
Stopping == "Stopping"
Stopped == "Stopped"

\* system messages
StopMessage == [type |-> "Stop"]
RestartMessage == [type |-> "Restart"]
ResumeMessage == [type |-> "Resume"]
FailureMessage(who, reason, rs, message) ==
  [type |-> "Failure", who |-> who, reason |-> reason, rs |-> rs, message |-> message]
TerminatedMessage(who) == [type |-> "Terminated", who |-> who]

\* what an actor's receive is given: an auto-receive message, or a user message with
\* its sender
AutoReceive(name, who) == [payload |-> name, who |-> who]
PreStop == AutoReceive("PreStop", NoPid)
PostStop == AutoReceive("PostStop", NoPid)
PreRestart == AutoReceive("PreRestart", NoPid)
PostRestartStart == AutoReceive("PostStart", NoPid)
Terminated(who) == AutoReceive("Terminated", who)
UserMessage(k, sender) == [payload |-> SenderMessages[k], who |-> sender]

\* the reasons a child of the tree fails with (none that the decider escalates: the
\* supervisor's own supervisor is outside the tree), and the statistics its report carries
LifecycleReasons == {"resumable", "restartable", "fatal"}
ReportedStatistics == {RestartStatisticsNew, <<0>>}

\* ProcessRegistry::get: the process of a PID, or the dead-letter process for one that
\* was removed or is marked dead
ResolvesToActor(a) == actorRegistered[a] /\ ~actorDead[a]

\* a system message sent to a PID: posted to the mailbox of a process that resolves
SendSystem(queues, a, m) ==
  IF ResolvesToActor(a) THEN [queues EXCEPT ![a] = Append(@, m)] ELSE queues
\* a message for several PIDs that is sent to none
SendSystemToAll_None(queues, targets, m) == queues

SendSystemToAll(queues, targets, m) ==
  [a \in LifecycleActors |->
     IF a \in targets /\ ResolvesToActor(a) THEN Append(queues[a], m) ELSE queues[a]]

\* the children a stopping actor tells of its end only
NotifyTerminated_NoParent(queues, a) == queues

\* the end of a stop: the parent is told with a Terminated system message
NotifyTerminated(queues, a) ==
  IF ParentOf(a) = NoPid THEN queues ELSE SendSystem(queues, ParentOf(a), TerminatedMessage(a))

\* receive is given every message but those that reach a stopped actor
DeliverTo_AlsoStopped(state, received, m) == Append(received, m)

DeliverTo(state, received, m) == IF state = Stopped THEN received ELSE Append(received, m)

LifecycleFrame == UNCHANGED nonLifecycleVars

\* invoke_system_message(Stop): PreStop, the children are stopped; without children the
\* stop ends at once (PostStop, the parent is told), with children the actor waits
InvokeStop(a) ==
  /\ actorSysQueue[a] # <<>>
  /\ Head(actorSysQueue[a]) = StopMessage
  /\ LET rest == [actorSysQueue EXCEPT ![a] = Tail(@)] IN
     IF actorState[a] # Alive
       THEN /\ actorSysQueue' = rest
            /\ UNCHANGED <<actorState, actorReceived>>
       ELSE IF actorChildren[a] = {}
         THEN /\ actorState' = [actorState EXCEPT ![a] = Stopped]
              /\ actorReceived' = [actorReceived EXCEPT ![a] = @ \o <<PreStop, PostStop>>]
              /\ actorSysQueue' = NotifyTerminated(rest, a)
         ELSE /\ actorState' = [actorState EXCEPT ![a] = Stopping]
              /\ actorReceived' = [actorReceived EXCEPT ![a] = Append(@, PreStop)]
              /\ actorSysQueue' = SendSystemToAll(rest, actorChildren[a], StopMessage)
  /\ UNCHANGED <<actorDead, actorRegistered, actorUserQueue, actorSuspended, actorChildren,
                 deadLetterEvents, sentLog, stopCalls, failures>>
  /\ LifecycleFrame

\* invoke_system_message(Terminated(child)): the child leaves the children, receive is
\* given Terminated, and a stopping actor whose last child it was ends its stop
InvokeTerminated(a) ==
  /\ actorSysQueue[a] # <<>>
  /\ Head(actorSysQueue[a]).type = "Terminated"
  /\ LET who == Head(actorSysQueue[a]).who
         rest == [actorSysQueue EXCEPT ![a] = Tail(@)]
         left == actorChildren[a] \ {who}
         told == DeliverTo(actorState[a], actorReceived[a], Terminated(who))
     IN
     /\ actorChildren' = [actorChildren EXCEPT ![a] = left]
     /\ IF actorState[a] = Stopping /\ left = {}
          THEN /\ actorState' = [actorState EXCEPT ![a] = Stopped]
               /\ actorReceived' = [actorReceived EXCEPT ![a] = Append(told, PostStop)]
               /\ actorSysQueue' = NotifyTerminated(rest, a)
          ELSE /\ actorState' = actorState
               /\ actorReceived' = [actorReceived EXCEPT ![a] = told]
               /\ actorSysQueue' = rest
  /\ UNCHANGED <<actorDead, actorRegistered, actorUserQueue, actorSuspended,
                 deadLetterEvents, sentLog, stopCalls, failures>>
  /\ LifecycleFrame

\* invoke_system_message(Failure(child, reason, rs, message)): the supervisor strategy
\* is asked, and its call on the supervisor becomes a system message to the child
InvokeFailure(a) ==
  /\ actorSysQueue[a] # <<>>
  /\ Head(actorSysQueue[a]).type = "Failure"
  /\ LET f == Head(actorSysQueue[a])
         rest == [actorSysQueue EXCEPT ![a] = Tail(@)]
         call == HandleFailureCall(f.who, f.rs, f.reason, f.message)
         order == CASE call.operation = "resume_children" -> ResumeMessage
                    [] call.operation = "restart_children" -> RestartMessage
                    [] OTHER -> StopMessage
     IN
     actorSysQueue' = IF actorState[a] = Alive /\ call.operation # "escalate_failure"
                        THEN SendSystemToAll(rest, {call.argument[i] : i \in 1..Len(call.argument)}, order)
                        ELSE rest
  /\ UNCHANGED <<actorState, actorDead, actorRegistered, actorUserQueue, actorSuspended,
                 actorChildren, actorReceived, deadLetterEvents, sentLog, stopCalls, failures>>
  /\ LifecycleFrame

\* invoke_system_message(Restart): PreRestart, the actor is made anew, PostStart, and
\* the mailbox is resumed (an actor of the tree that is restarted has no children)
InvokeRestart(a) ==
  /\ actorSysQueue[a] # <<>>
  /\ Head(actorSysQueue[a]) = RestartMessage
  /\ actorSysQueue' = [actorSysQueue EXCEPT ![a] = Tail(@)]
  /\ IF actorState[a] = Alive
       THEN /\ actorReceived' = [actorReceived EXCEPT ![a] = @ \o <<PreRestart, PostRestartStart>>]
            /\ actorSuspended' = [actorSuspended EXCEPT ![a] = FALSE]
       ELSE UNCHANGED <<actorReceived, actorSuspended>>
  /\ UNCHANGED <<actorState, actorDead, actorRegistered, actorUserQueue, actorChildren,
                 deadLetterEvents, sentLog, stopCalls, failures>>
  /\ LifecycleFrame

\* invoke_system_message(Resume): the mailbox delivers user messages again
InvokeResume(a) ==
  /\ actorSysQueue[a] # <<>>
  /\ Head(actorSysQueue[a]) = ResumeMessage
  /\ actorSysQueue' = [actorSysQueue EXCEPT ![a] = Tail(@)]
  /\ actorSuspended' = [actorSuspended EXCEPT ![a] = FALSE]
  /\ UNCHANGED <<actorState, actorDead, actorRegistered, actorUserQueue, actorChildren,
                 actorReceived, deadLetterEvents, sentLog, stopCalls, failures>>
  /\ LifecycleFrame

\* invoke_user_message(m), once the system queue is drained and unless the mailbox is
\* suspended: receive is given the message and answers a request with Pong to its
\* sender; a failed receive of a child is escalated (Failure to the parent, the
\* mailbox suspended)
InvokeUserMessage(a, ok) ==
  /\ actorSysQueue[a] = <<>>
  /\ actorUserQueue[a] # <<>>
  /\ ~actorSuspended[a]
  /\ actorUserQueue' = [actorUserQueue EXCEPT ![a] = Tail(@)]
  /\ actorReceived' = [actorReceived EXCEPT ![a] = DeliverTo(actorState[a], @, Head(actorUserQueue[a]))]
  /\ IF ok
       THEN /\ UNCHANGED <<actorSysQueue, actorSuspended, failures>>
            /\ IF /\ actorState[a] # Stopped
                  /\ Head(actorUserQueue[a]).who # NoPid
                  /\ processRegistry[Head(actorUserQueue[a]).who] = FutureProcess
                 THEN SendUserMessage(Pong)
                 ELSE UNCHANGED <<scheduled, touched>>
       ELSE /\ UNCHANGED <<scheduled, touched>>
            /\ actorState[a] = Alive
            /\ a \in Children
            /\ failures < MaxChildFailures
            /\ failures' = failures + 1
            /\ actorSuspended' = [actorSuspended EXCEPT ![a] = TRUE]
            /\ \E reason \in LifecycleReasons, rs \in ReportedStatistics :
                 actorSysQueue' = SendSystem(actorSysQueue, ParentOf(a),
                                             FailureMessage(a, reason, rs, Head(actorUserQueue[a])))
  /\ UNCHANGED <<actorState, actorDead, actorRegistered, actorChildren, deadLetterEvents,
                 sentLog, stopCalls>>
  /\ UNCHANGED <<nonLifecycleFutureVars, futureAtRestVars, reqPc>>

\* the end of a stop goes on: set_dead on the process
SetDead(a) ==
  /\ actorState[a] = Stopped
  /\ ~actorDead[a]
  /\ actorDead' = [actorDead EXCEPT ![a] = TRUE]
  /\ UNCHANGED <<actorState, actorRegistered, actorSysQueue, actorUserQueue, actorSuspended,
                 actorChildren, actorReceived, deadLetterEvents, sentLog, stopCalls, failures>>
  /\ LifecycleFrame

\* ... and the process is removed from the registry
RemoveProcess(a) ==
  /\ actorDead[a]
  /\ actorRegistered[a]
  /\ actorRegistered' = [actorRegistered EXCEPT ![a] = FALSE]
  /\ UNCHANGED <<actorState, actorDead, actorSysQueue, actorUserQueue, actorSuspended,
                 actorChildren, actorReceived, deadLetterEvents, sentLog, stopCalls, failures>>
  /\ LifecycleFrame

\* the calls made from outside so far
Calls == Len(sentLog) + stopCalls

\* DeadLetterEvent
DeadLetterEvent(target, message, sender) == [pid |-> target, message |-> message, sender |-> sender]

\* root_context.send(pid, message): the message goes to the mailbox of the process the
\* PID resolves to, or to the dead-letter process, which publishes a DeadLetterEvent
Send(a) ==
  LET m == UserMessage(Len(sentLog) + 1, NoPid) IN
  /\ Calls < MaxCalls
  /\ sentLog' = Append(sentLog, [to |-> a, message |-> m, dead |-> actorDead[a] \/ ~actorRegistered[a]])
  /\ IF ResolvesToActor(a)
       THEN /\ actorUserQueue' = [actorUserQueue EXCEPT ![a] = Append(@, m)]
            /\ deadLetterEvents' = deadLetterEvents
       ELSE /\ deadLetterEvents' = Append(deadLetterEvents, DeadLetterEvent(a, m, NoPid))
            /\ actorUserQueue' = actorUserQueue
  /\ UNCHANGED <<actorState, actorDead, actorRegistered, actorSysQueue, actorSuspended,
                 actorChildren, actorReceived, stopCalls, failures>>
  /\ LifecycleFrame

\* root_context.request_future(pid, Ping, timeout): the envelope carries the future's
\* PID as its sender; the dead-letter process publishes the event and answers the
\* sender with a DeadLetterResponse
RequestFutureTo(a) ==
  LET m == [payload |-> Ping, who |-> pid] IN
  /\ Calls < MaxCalls
  /\ reqPc = "none"
  /\ reqPc' = "sent"
  /\ sentLog' = Append(sentLog, [to |-> a, message |-> m, dead |-> actorDead[a] \/ ~actorRegistered[a]])
  /\ IF ResolvesToActor(a)
       THEN /\ actorUserQueue' = [actorUserQueue EXCEPT ![a] = Append(@, m)]
            /\ UNCHANGED <<deadLetterEvents, scheduled, touched>>
       ELSE /\ deadLetterEvents' = Append(deadLetterEvents, DeadLetterEvent(a, m, pid))
            /\ SendUserMessage(DeadLetterResponse)
            /\ actorUserQueue' = actorUserQueue
  /\ UNCHANGED <<actorState, actorDead, actorRegistered, actorSysQueue, actorSuspended,
                 actorChildren, actorReceived, stopCalls, failures>>
  /\ UNCHANGED <<nonLifecycleFutureVars, futureAtRestVars>>

\* root_context.stop(pid): a Stop system message to the process the PID resolves to
Stop(a) ==
  /\ Calls < MaxCalls
  /\ stopCalls' = stopCalls + 1
  /\ actorSysQueue' = SendSystem(actorSysQueue, a, StopMessage)
  /\ UNCHANGED <<actorState, actorDead, actorRegistered, actorUserQueue, actorSuspended,
                 actorChildren, actorReceived, deadLetterEvents, sentLog, failures>>
  /\ LifecycleFrame

\* a supervisor whose second child has stopped earlier: the parent was given its
\* Terminated, and its process is dead and removed
InitOneChildLeft ==
  /\ actorState = [a \in LifecycleActors |-> IF a = Sibling THEN Stopped ELSE Alive]
  /\ actorDead = [a \in LifecycleActors |-> a = Sibling]
  /\ actorRegistered = [a \in LifecycleActors |-> a # Sibling]
  /\ actorSysQueue = [a \in LifecycleActors |-> <<>>]
  /\ actorUserQueue = [a \in LifecycleActors |-> <<>>]
  /\ actorSuspended = [a \in LifecycleActors |-> FALSE]
  /\ actorChildren = [a \in LifecycleActors |-> IF a = Parent THEN {Child} ELSE {}]
  /\ actorReceived = [a \in LifecycleActors |->
                        CASE a = Parent -> <<Terminated(Sibling)>>
                          [] a = Sibling -> <<PreStop, PostStop>>
                          [] OTHER -> <<>>]
  /\ deadLetterEvents = <<>>
  /\ sentLog = <<>>
  /\ stopCalls = 0
  /\ failures = 0

\* a spawned supervisor with its children, all started
InitLifecycle ==
  /\ actorState = [a \in LifecycleActors |-> Alive]
  /\ actorDead = [a \in LifecycleActors |-> FALSE]
  /\ actorRegistered = [a \in LifecycleActors |-> TRUE]
  /\ actorSysQueue = [a \in LifecycleActors |-> <<>>]
  /\ actorUserQueue = [a \in LifecycleActors |-> <<>>]
  /\ actorSuspended = [a \in LifecycleActors |-> FALSE]
  /\ actorChildren = [a \in LifecycleActors |-> IF a = Parent THEN Children ELSE {}]
  /\ actorReceived = [a \in LifecycleActors |-> <<>>]
  /\ deadLetterEvents = <<>>
  /\ sentLog = <<>>
  /\ stopCalls = 0
  /\ failures = 0

\* one mailbox turn's step of an actor
Turn(a) ==
  \/ InvokeStop(a)
  \/ InvokeTerminated(a)
  \/ InvokeFailure(a)
  \/ InvokeRestart(a)
  \/ InvokeResume(a)
  \/ \E ok \in BOOLEAN : InvokeUserMessage(a, ok)
  \/ SetDead(a)
  \/ RemoveProcess(a)

NextLifecycle ==
  \/ \E a \in LifecycleActors : InvokeStop(a)
  \/ \E a \in LifecycleActors : InvokeTerminated(a)
  \/ \E a \in LifecycleActors : InvokeFailure(a)
  \/ \E a \in LifecycleActors : InvokeRestart(a)
  \/ \E a \in LifecycleActors : InvokeResume(a)
  \/ \E a \in LifecycleActors, ok \in BOOLEAN : InvokeUserMessage(a, ok)
  \/ \E a \in LifecycleActors : SetDead(a)
  \/ \E a \in LifecycleActors : RemoveProcess(a)
  \/ \E a \in LifecycleActors : Send(a)
  \/ \E a \in LifecycleActors : Stop(a)

\* ---- Props: receiver and sender middleware (props.rs 255-281) -------------------------
\* middlewares: two that call next, one that does not
Middlewares == {"first", "second", "blocking"}
CallsNext(m) == m # "blocking"
\* the lists an option is built with
MiddlewareLists == {<<m>> : m \in Middlewares} \cup {<<m, n>> : m \in Middlewares, n \in Middlewares}

\* the terminal of a chain, and a middleware wrapped around a chain
Terminal(name) == [kind |-> "terminal", name |-> name]
Layer(m, next) == [kind |-> "layer", middleware |-> m, next |-> next]
\* ReceiverMiddlewareChain::new(|rch, me| rch.receive(me)) (props.rs 263)
ReceiveTerminal == Terminal("receive")
\* SenderMiddlewareChain::new(|sch, target, me| target.send_user_message(..)) (274-278)
SendTerminal == Terminal("send_user_message")

\* composition from the right: the last middleware of the list wraps the terminal,
\* each earlier one wraps what follows it
RECURSIVE ComposeFrom(_, _, _)
ComposeFrom(ms, i, h) == IF i = 0 THEN h ELSE ComposeFrom(ms, i - 1, Layer(ms[i], h))
MakeChain(ms, last) == IF ms = <<>> THEN OptionNone ELSE OptionSome(ComposeFrom(ms, Len(ms), last))
MakeReceiverMiddlewareChain(ms, last) == MakeChain(ms, last)
MakeSenderMiddlewareChain(ms, last) == MakeChain(ms, last)

\* an option that keeps only its own middlewares
Extend_Replacing(list, ms) == ms

\* Vec::extend
Extend(list, ms) == list \o ms

\* what a call through a chain makes happen: each middleware is entered, calls next
\* or does not, and returns
Enter(m) == <<"enter", m>>
Return(m) == <<"return", m>>
Ran(name) == <<"terminal", name>>
RECURSIVE RunChain(_)
RunChain(ch) ==
  IF ch.kind = "terminal"
    THEN <<Ran(ch.name)>>
    ELSE IF CallsNext(ch.middleware)
      THEN <<Enter(ch.middleware)>> \o RunChain(ch.next) \o <<Return(ch.middleware)>>
      ELSE <<Enter(ch.middleware), Return(ch.middleware)>>
\* a Props without a chain calls the terminal directly
RunOption(chain, last) == IF chain = OptionNone THEN RunChain(last) ELSE RunChain(chain[1])

MiddlewareFrame == UNCHANGED nonMiddlewareVars

\* Props::with_receiver_middlewares(middlewares), applied to the Props
WithReceiverMiddlewares(ms) ==
  /\ Len(receiverAdded) + Len(ms) <= MaxMiddlewares
  /\ receiverAdded' = receiverAdded \o ms
  /\ receiver_middleware' = Extend(receiver_middleware, ms)
  /\ receiver_middleware_chain' = MakeReceiverMiddlewareChain(receiver_middleware', ReceiveTerminal)
  /\ UNCHANGED <<sender_middleware, sender_middleware_chain, receiverTrace, senderTrace,
                 senderAdded>>
  /\ MiddlewareFrame

\* Props::with_sender_middlewares(middlewares), applied to the Props
WithSenderMiddlewares(ms) ==
  /\ Len(senderAdded) + Len(ms) <= MaxMiddlewares
  /\ senderAdded' = senderAdded \o ms
  /\ sender_middleware' = Extend(sender_middleware, ms)
  /\ sender_middleware_chain' = MakeSenderMiddlewareChain(sender_middleware', SendTerminal)
  /\ UNCHANGED <<receiver_middleware, receiver_middleware_chain, receiverTrace, senderTrace,
                 receiverAdded>>
  /\ MiddlewareFrame

\* a message is received by an actor of the Props: get_receiver_middleware_chain
ReceiveThroughChain ==
  /\ receiverTrace' = [middlewares |-> receiverAdded,
                        events |-> RunOption(receiver_middleware_chain, ReceiveTerminal)]
  /\ UNCHANGED <<receiver_middleware, receiver_middleware_chain, sender_middleware,
                 sender_middleware_chain, senderTrace, receiverAdded, senderAdded>>
  /\ MiddlewareFrame

\* an actor of the Props sends a message: get_sender_middleware_chain
SendThroughChain ==
  /\ senderTrace' = [middlewares |-> senderAdded,
                      events |-> RunOption(sender_middleware_chain, SendTerminal)]
  /\ UNCHANGED <<receiver_middleware, receiver_middleware_chain, sender_middleware,
                 sender_middleware_chain, receiverTrace, receiverAdded, senderAdded>>
  /\ MiddlewareFrame

\* Props::default (props.rs 378-384)
InitMiddleware ==
  /\ receiver_middleware = <<>>
  /\ sender_middleware = <<>>
  /\ receiver_middleware_chain = OptionNone
  /\ sender_middleware_chain = OptionNone
  /\ receiverTrace = [middlewares |-> <<>>, events |-> <<>>]
  /\ senderTrace = [middlewares |-> <<>>, events |-> <<>>]
  /\ receiverAdded = <<>>
  /\ senderAdded = <<>>

NextMiddleware ==
  \/ \E ms \in MiddlewareLists : WithReceiverMiddlewares(ms)
  \/ \E ms \in MiddlewareLists : WithSenderMiddlewares(ms)
  \/ ReceiveThroughChain
  \/ SendThroughChain

\* ---- EventStream (event_stream_test.rs, event_stream/handler.rs, log/event_stream.rs) --
\* subscriptions, in the order they are made; the events published; no event
Subscriptions == 1..MaxSubscriptions
Events == {1, 100}
NoEvent == 0
\* subscribe(handler) has no predicate; subscribe_with_predicate has |_| true or |_| false
Predicates == {"none", "true", "false"}
Accepts(predicate, evt) == predicate # "false"

\* Vec::swap(index, last) and Vec::pop, the moved subscription taking the index (0-based)
Swap(list, i, j) == [k \in 1..Len(list) |-> IF k = i THEN list[j] ELSE IF k = j THEN list[i] ELSE list[k]]
Pop(list) == SubSeq(list, 1, Len(list) - 1)

\* a removal that pops the last subscription whichever was given
SwapRemove_NoSwap(list, index) == Pop(list)

SwapRemove(list, index) == Pop(Swap(list, index + 1, Len(list)))

\* a handler that runs its function twice
HandlerRun_Twice(calls, sub, evt) == calls \o <<<<sub, evt>>, <<sub, evt>>>>

\* Handler::run(evt): the subscription's function is called with the event
HandlerRun(calls, sub, evt) == Append(calls, <<sub, evt>>)

\* length()
Length == Len(subscriptions)
\* the subscriptions in the vector
InVector == {subscriptions[i] : i \in 1..Len(subscriptions)}
\* subscribe and unsubscribe take the write lock: no publish holds the read lock
WriteLockFree == ~publishing

EventStreamFrame == UNCHANGED nonEventStreamVars

\* subscribe(handler) / subscribe_with_predicate(handler, predicate)
Subscribe(predicate) ==
  /\ WriteLockFree
  /\ \E sub \in Subscriptions :
       /\ subState[sub] = "new"
       /\ \A other \in Subscriptions : other < sub => subState[other] # "new"
       /\ subIndex' = [subIndex EXCEPT ![sub] = Len(subscriptions)]
       /\ subscriptions' = Append(subscriptions, sub)
       /\ subActive' = [subActive EXCEPT ![sub] = TRUE]
       /\ subPredicate' = [subPredicate EXCEPT ![sub] = predicate]
       /\ subState' = [subState EXCEPT ![sub] = "subscribed"]
  /\ UNCHANGED <<publishing, publishEvt, publishNext, publishCalls, publishSubs, publishes>>
  /\ EventStreamFrame

\* unsubscribe(sub): the subscription is looked up in the vector, swapped with the last
\* and popped; one that is not in the vector is left alone
Unsubscribe(sub) ==
  /\ WriteLockFree
  /\ subState[sub] # "new"
  /\ IF sub \in InVector
       THEN LET index == (CHOOSE i \in 1..Len(subscriptions) : subscriptions[i] = sub) - 1
                swapped == subscriptions[Len(subscriptions)]
            IN /\ subscriptions' = SwapRemove(subscriptions, index)
               /\ subIndex' = [subIndex EXCEPT ![swapped] = index]
               /\ subActive' = [subActive EXCEPT ![sub] = FALSE]
               /\ subState' = [subState EXCEPT ![sub] = "unsubscribed"]
       ELSE UNCHANGED <<subscriptions, subIndex, subActive, subState>>
  /\ UNCHANGED <<subPredicate, publishing, publishEvt, publishNext, publishCalls, publishSubs,
                 publishes>>
  /\ EventStreamFrame

\* publish(evt) takes the read lock
PublishBegin(evt) ==
  /\ ~publishing
  /\ publishes < MaxPublishes
  /\ publishes' = publishes + 1
  /\ publishing' = TRUE
  /\ publishEvt' = evt
  /\ publishNext' = 1
  /\ publishCalls' = <<>>
  /\ publishSubs' = InVector
  /\ UNCHANGED <<subscriptions, subIndex, subActive, subPredicate, subState>>
  /\ EventStreamFrame

\* publish's loop: the next subscription's handler is run if its predicate accepts
PublishNext ==
  /\ publishing
  /\ publishNext <= Len(subscriptions)
  /\ publishNext' = publishNext + 1
  /\ LET sub == subscriptions[publishNext] IN
     publishCalls' = IF Accepts(subPredicate[sub], publishEvt)
                       THEN HandlerRun(publishCalls, sub, publishEvt)
                       ELSE publishCalls
  /\ UNCHANGED <<subscriptions, subIndex, subActive, subPredicate, subState, publishing,
                 publishEvt, publishSubs, publishes>>
  /\ EventStreamFrame

\* publish returns: the read lock is released
PublishReturn ==
  /\ publishing
  /\ publishNext > Len(subscriptions)
  /\ publishing' = FALSE
  /\ UNCHANGED <<subscriptions, subIndex, subActive, subPredicate, subState, publishEvt, publishNext,
                 publishCalls, publishSubs, publishes>>
  /\ EventStreamFrame

\* EventStream::new
InitEventStream ==
  /\ subscriptions = <<>>
  /\ subIndex = [sub \in Subscriptions |-> 0]
  /\ subActive = [sub \in Subscriptions |-> FALSE]
  /\ subPredicate = [sub \in Subscriptions |-> "none"]
  /\ subState = [sub \in Subscriptions |-> "new"]
  /\ publishing = FALSE
  /\ publishEvt = NoEvent
  /\ publishNext = 1
  /\ publishCalls = <<>>
  /\ publishSubs = {}
  /\ publishes = 0

NextEventStream ==
  \/ \E predicate \in Predicates : Subscribe(predicate)
  \/ \E sub \in Subscriptions : Unsubscribe(sub)
  \/ \E evt \in Events : PublishBegin(evt)
  \/ PublishNext
  \/ PublishReturn

\* ---- the receive timeout of an actor ---------------------------------------------------
\* the user messages of the actor: one that counts for the receive timeout, one that is
\* NotInfluenceReceiveTimeout, and the timeout's own message
Qualifying == "message"
NotInfluencing == "NotInfluenceReceiveTimeout"
ReceiveTimeout == "ReceiveTimeout"
PostedToTimed == {Qualifying, NotInfluencing}
InfluencesReceiveTimeout(m) == m # NotInfluencing
\* the durations given to set_receive_timeout: zero cancels
TimeoutDurations == 0..MaxReceiveTimeout

\* a timer left as it was by a message
RestartTimer_Never(remaining, d) == remaining

\* the timer as a handled message that counts leaves it: started anew when a timeout is set
RestartTimer(remaining, d) == d

ReceiveTimeoutFrame == UNCHANGED nonReceiveTimeoutVars

\* context.set_receive_timeout(d): the timer is replaced by one of d, or cancelled
SetReceiveTimeout(d) ==
  /\ ~timedStopped
  /\ timedSets < MaxTimedSets
  /\ timedSets' = timedSets + 1
  /\ receive_timeout' = d
  /\ timerRemaining' = d
  /\ timerIdle' = 0
  /\ UNCHANGED <<timedMailbox, timedReceived, timedStopped, timedPosts, ticks>>
  /\ ReceiveTimeoutFrame

\* a user message is sent to the actor
PostToTimed(m) ==
  /\ timedPosts < MaxTimedPosts
  /\ timedPosts' = timedPosts + 1
  /\ timedMailbox' = IF timedStopped THEN timedMailbox ELSE Append(timedMailbox, m)
  /\ UNCHANGED <<receive_timeout, timerRemaining, timerIdle, timedReceived, timedStopped,
                 timedSets, ticks>>
  /\ ReceiveTimeoutFrame

\* invoke_user_message: receive is given the message; one that counts restarts the timer
InvokeTimed ==
  /\ timedMailbox # <<>>
  /\ timedMailbox' = Tail(timedMailbox)
  /\ IF timedStopped
       THEN UNCHANGED <<timedReceived, timerRemaining, timerIdle>>
       ELSE /\ timedReceived' = Append(timedReceived, Head(timedMailbox))
            /\ IF receive_timeout > 0 /\ InfluencesReceiveTimeout(Head(timedMailbox))
                 THEN /\ timerRemaining' = RestartTimer(timerRemaining, receive_timeout)
                      /\ timerIdle' = 0
                 ELSE UNCHANGED <<timerRemaining, timerIdle>>
  /\ UNCHANGED <<receive_timeout, timedStopped, timedPosts, timedSets, ticks>>
  /\ ReceiveTimeoutFrame

\* time passes; a timer that runs out sends the actor a ReceiveTimeout user message
TimePasses ==
  /\ ticks < MaxTicks
  /\ ticks' = ticks + 1
  /\ IF timerRemaining > 0
       THEN /\ timerRemaining' = timerRemaining - 1
            /\ timerIdle' = timerIdle + 1
            /\ timedMailbox' = IF timerRemaining = 1
                                 THEN Append(timedMailbox, ReceiveTimeout)
                                 ELSE timedMailbox
       ELSE UNCHANGED <<timerRemaining, timerIdle, timedMailbox>>
  /\ UNCHANGED <<receive_timeout, timedReceived, timedStopped, timedPosts, timedSets>>
  /\ ReceiveTimeoutFrame

\* the actor stops: its receive timeout is cancelled
StopTimed ==
  /\ ~timedStopped
  /\ timedStopped' = TRUE
  /\ timerRemaining' = 0
  /\ UNCHANGED <<receive_timeout, timerIdle, timedMailbox, timedReceived, timedPosts,
                 timedSets, ticks>>
  /\ ReceiveTimeoutFrame

\* a started actor that has set no receive timeout
InitReceiveTimeout ==
  /\ receive_timeout = 0
  /\ timerRemaining = 0
  /\ timerIdle = 0
  /\ timedMailbox = <<>>
  /\ timedReceived = <<>>
  /\ timedStopped = FALSE
  /\ timedPosts = 0
  /\ timedSets = 0
  /\ ticks = 0

NextReceiveTimeout ==
  \/ \E d \in TimeoutDurations : SetReceiveTimeout(d)
  \/ \E m \in PostedToTimed : PostToTimed(m)
  \/ InvokeTimed
  \/ TimePasses
  \/ StopTimed

\* ---- stop_future: a future watching the actor it stops ------------------------------
WatchMessage(w) == [type |-> "Watch", watcher |-> w]
TerminatedNotice == "Terminated"

\* the Terminated sent to a watcher: the future process is sent it as a system message
TellWatcher(w) ==
  IF processRegistry[w] = FutureProcess
    THEN SendSystemMessage(TerminatedNotice)
    ELSE UNCHANGED <<scheduled, touched>>

\* root_context.stop_future(pid): the future's PID is sent to the actor in a Watch
\* system message, then the actor is sent Stop, and the future is returned
StopFuture(a) ==
  /\ Calls < MaxCalls
  /\ stopFutureOf = NoPid
  /\ actorState[a] = Alive
  /\ stopFutureOf' = a
  /\ stopCalls' = stopCalls + 1
  /\ actorSysQueue' = SendSystem(SendSystem(actorSysQueue, a, WatchMessage(pid)), a, StopMessage)
  /\ UNCHANGED <<actorState, actorDead, actorRegistered, actorUserQueue, actorSuspended,
                 actorChildren, actorReceived, deadLetterEvents, sentLog, failures>>
  /\ UNCHANGED <<actorWatchers, nonLifecycleFutureWatchVars, futureAtRestVars, scheduled,
                 touched, reqPc>>

\* invoke_system_message(Watch(pid)): the PID joins the watchers
InvokeWatch(a) ==
  /\ actorSysQueue[a] # <<>>
  /\ Head(actorSysQueue[a]).type = "Watch"
  /\ actorSysQueue' = [actorSysQueue EXCEPT ![a] = Tail(@)]
  /\ actorWatchers' = [actorWatchers EXCEPT ![a] = @ \cup {Head(actorSysQueue[a]).watcher}]
  /\ UNCHANGED <<actorState, actorDead, actorRegistered, actorUserQueue, actorSuspended,
                 actorChildren, actorReceived, deadLetterEvents, sentLog, stopCalls, failures>>
  /\ UNCHANGED <<stopFutureOf, nonLifecycleFutureWatchVars, futureAtRestVars, scheduled,
                 touched, reqPc>>

\* the end of a stop: every watcher is sent Terminated
NotifyWatchers(a) ==
  /\ actorState[a] = Stopped
  /\ actorWatchers[a] # {}
  /\ actorWatchers' = [actorWatchers EXCEPT ![a] = {}]
  /\ TellWatcher(pid)
  /\ UNCHANGED lifecycleVars
  /\ UNCHANGED <<stopFutureOf, nonLifecycleFutureWatchVars, futureAtRestVars, reqPc>>

InitWatch ==
  /\ actorWatchers = [a \in LifecycleActors |-> {}]
  /\ stopFutureOf = NoPid

\* ---- the future's inner lock and calls made from inside its operations ---------------
\* the tasks that call the future, and no task
Tasks == {"t1", "t2"}
NoTask == "none"
\* what a completion callback does: nothing with the future, or one call on it
CallbackCalls == {"nothing", "result", "pipe_to", "continue_with", "complete", "fail"}
\* a pipe target: the future's own process, or another process
OwnProcess == "self"
OtherProcess == "other"
PipeTargets == {OwnProcess, OtherProcess}
\* the operations that take inner's write lock
Operation(kind, arg) == [kind |-> kind, arg |-> arg]
NoOperation == Operation("none", "none")
LockingOperations ==
  {Operation("complete", "none"), Operation("fail", "none")}
    \cup {Operation("pipe_to", t) : t \in PipeTargets}
    \cup {Operation("continue_with", c) : c \in CallbackCalls}

\* tokio's RwLock: read() and write() both wait while a write guard is held, whoever
\* holds it
LockFree == innerWriter = NoTask

\* a callback's call on the future returns once it has had the lock it asks for:
\* result() reads inner, pipe_to, continue_with, complete and fail write it
CallbackCanReturn(c) == c = "nothing" \/ LockFree

\* send_user_message of a pipe target: the future's own process reads inner for the
\* dispatcher before it schedules (future.rs 251-254), another process does not
PipeSendCanReturn(target) == target # OwnProcess \/ LockFree

ReentryFrame == UNCHANGED nonReentryVars

\* a task calls complete, fail, pipe_to or continue_with
CallLocking(t, op) ==
  /\ lockOps < MaxLockOps
  /\ lockOps' = lockOps + 1
  /\ taskPc[t] = "idle"
  /\ taskPc' = [taskPc EXCEPT ![t] = "write"]
  /\ taskOp' = [taskOp EXCEPT ![t] = op]
  /\ UNCHANGED <<innerWriter, lockedDone, lockedPipes, lockedCompletions, taskCallback>>
  /\ ReentryFrame

\* self.inner.write().await, and what the operation does before its first await
\* under the guard
AcquireWrite(t) ==
  /\ taskPc[t] = "write"
  /\ LockFree
  /\ innerWriter' = t
  /\ LET op == taskOp[t] IN
     CASE op.kind \in {"complete", "fail"} ->
            /\ lockedDone' = TRUE
            /\ taskPc' = [taskPc EXCEPT ![t] = IF lockedDone THEN "release" ELSE "send_to_pipes"]
            /\ UNCHANGED <<lockedPipes, lockedCompletions>>
       [] op.kind = "pipe_to" ->
            /\ lockedPipes' = Append(lockedPipes, op.arg)
            /\ taskPc' = [taskPc EXCEPT ![t] = IF lockedDone THEN "send_to_pipes" ELSE "release"]
            /\ UNCHANGED <<lockedDone, lockedCompletions>>
       [] OTHER ->
            /\ lockedCompletions' = IF lockedDone THEN lockedCompletions
                                     ELSE Append(lockedCompletions, op.arg)
            /\ taskPc' = [taskPc EXCEPT ![t] = IF lockedDone THEN "continuation" ELSE "release"]
            /\ UNCHANGED <<lockedDone, lockedPipes>>
  /\ UNCHANGED <<taskOp, taskCallback, lockOps>>
  /\ ReentryFrame

\* send_to_pipes: the next PID's send_user_message(..).await returns
SendToPipe(t) ==
  /\ taskPc[t] = "send_to_pipes"
  /\ lockedPipes # <<>>
  /\ PipeSendCanReturn(Head(lockedPipes))
  /\ lockedPipes' = Tail(lockedPipes)
  /\ UNCHANGED <<innerWriter, lockedDone, lockedCompletions, taskPc, taskOp, taskCallback, lockOps>>
  /\ ReentryFrame

\* send_to_pipes has sent to every PID and cleared the list
SendToPipesReturns(t) ==
  /\ taskPc[t] = "send_to_pipes"
  /\ lockedPipes = <<>>
  /\ taskPc' = [taskPc EXCEPT ![t] = IF taskOp[t].kind = "pipe_to" THEN "release"
                                     ELSE "run_completions"]
  /\ UNCHANGED <<innerWriter, lockedDone, lockedPipes, lockedCompletions, taskOp, taskCallback,
                 lockOps>>
  /\ ReentryFrame

\* run_completions: the next callback is taken from the queue and run
RunCompletion(t) ==
  /\ taskPc[t] = "run_completions"
  /\ lockedCompletions # <<>>
  /\ lockedCompletions' = Tail(lockedCompletions)
  /\ taskCallback' = [taskCallback EXCEPT ![t] = Head(lockedCompletions)]
  /\ taskPc' = [taskPc EXCEPT ![t] = "completion"]
  /\ UNCHANGED <<innerWriter, lockedDone, lockedPipes, taskOp, lockOps>>
  /\ ReentryFrame

\* completion.run(..).await returns
CompletionReturns(t) ==
  /\ taskPc[t] = "completion"
  /\ CallbackCanReturn(taskCallback[t])
  /\ taskPc' = [taskPc EXCEPT ![t] = "run_completions"]
  /\ taskCallback' = [taskCallback EXCEPT ![t] = "nothing"]
  /\ UNCHANGED <<innerWriter, lockedDone, lockedPipes, lockedCompletions, taskOp, lockOps>>
  /\ ReentryFrame

\* run_completions has drained the queue
RunCompletionsReturns(t) ==
  /\ taskPc[t] = "run_completions"
  /\ lockedCompletions = <<>>
  /\ taskPc' = [taskPc EXCEPT ![t] = "release"]
  /\ UNCHANGED <<innerWriter, lockedDone, lockedPipes, lockedCompletions, taskOp, taskCallback,
                 lockOps>>
  /\ ReentryFrame

\* continue_with on a done future: continuation(..).await returns
ContinuationReturns(t) ==
  /\ taskPc[t] = "continuation"
  /\ CallbackCanReturn(taskOp[t].arg)
  /\ taskPc' = [taskPc EXCEPT ![t] = "release"]
  /\ UNCHANGED <<innerWriter, lockedDone, lockedPipes, lockedCompletions, taskOp, taskCallback,
                 lockOps>>
  /\ ReentryFrame

\* the operation returns and its write guard is dropped
ReleaseWrite(t) ==
  /\ taskPc[t] = "release"
  /\ innerWriter' = NoTask
  /\ taskPc' = [taskPc EXCEPT ![t] = "idle"]
  /\ taskOp' = [taskOp EXCEPT ![t] = NoOperation]
  /\ UNCHANGED <<lockedDone, lockedPipes, lockedCompletions, taskCallback, lockOps>>
  /\ ReentryFrame

InitReentry ==
  /\ innerWriter = NoTask
  /\ lockedDone = FALSE
  /\ lockedPipes = <<>>
  /\ lockedCompletions = <<>>
  /\ taskPc = [t \in Tasks |-> "idle"]
  /\ taskOp = [t \in Tasks |-> NoOperation]
  /\ taskCallback = [t \in Tasks |-> "nothing"]
  /\ lockOps = 0

NextReentry ==
  \/ \E t \in Tasks, op \in LockingOperations : CallLocking(t, op)
  \/ \E t \in Tasks : AcquireWrite(t)
  \/ \E t \in Tasks : SendToPipe(t)
  \/ \E t \in Tasks : SendToPipesReturns(t)
  \/ \E t \in Tasks : RunCompletion(t)
  \/ \E t \in Tasks : CompletionReturns(t)
  \/ \E t \in Tasks : RunCompletionsReturns(t)
  \/ \E t \in Tasks : ContinuationReturns(t)
  \/ \E t \in Tasks : ReleaseWrite(t)

\* ---- log::EventStream (log/event_stream.rs) -------------------------------------------
LogSubscriptions == 1..MaxLogSubscriptions
\* Level::Min, the min_level of a new subscription, and the levels of events
LevelMin == 0
Levels == LevelMin..MaxLevel
\* what a subscription's handler does when it is run: nothing with the stream, or one
\* call on the stream it is subscribed to
HandlerCalls == {"nothing", "subscribe", "unsubscribe", "clear"}
NoLogSubscription == 0

\* publish's test of a subscription: evt.level >= min_level
LevelAccepts(min_level, level) == level >= min_level

InLogVector == {logSubscriptions[i] : i \in 1..Len(logSubscriptions)}
\* iter().position(ptr_eq), 0-based
LogPosition(sub) == (CHOOSE i \in 1..Len(logSubscriptions) : logSubscriptions[i] = sub) - 1

\* tokio's RwLock: write() waits while a read guard is held, whoever holds it; the calls
\* that write hold the lock over no await, so a step finds no writer
LogWriteLockFree == ~logReading

LogStreamFrame == UNCHANGED nonLogStreamVars
LogCalled(call) ==
  /\ logCalls < MaxLogCalls
  /\ logCalls' = logCalls + 1
  /\ logLastCall' = call

\* subscribe(f)
LogSubscribe(f) ==
  /\ LogWriteLockFree
  /\ \E sub \in LogSubscriptions :
       /\ logState[sub] = "new"
       /\ \A other \in LogSubscriptions : other < sub => logState[other] # "new"
       /\ LogCalled(<<"subscribe", sub>>)
       /\ logIndex' = [logIndex EXCEPT ![sub] = Len(logSubscriptions)]
       /\ logMinLevel' = [logMinLevel EXCEPT ![sub] = LevelMin]
       /\ logFunc' = [logFunc EXCEPT ![sub] = f]
       /\ logSubscriptions' = Append(logSubscriptions, sub)
       /\ logState' = [logState EXCEPT ![sub] = "subscribed"]
  /\ UNCHANGED <<logReading, logEvt, logCursor, logRunning, logVisited>>
  /\ LogStreamFrame

\* unsubscribe(sub)
LogUnsubscribe(sub) ==
  /\ LogWriteLockFree
  /\ logState[sub] # "new"
  /\ LogCalled(<<"unsubscribe", sub>>)
  /\ IF sub \in InLogVector
       THEN LET index == LogPosition(sub)
                swapped == logSubscriptions[Len(logSubscriptions)]
            IN /\ logSubscriptions' = SwapRemove(logSubscriptions, index)
               /\ logIndex' = [logIndex EXCEPT ![swapped] = index]
               /\ logState' = [logState EXCEPT ![sub] = "unsubscribed"]
       ELSE UNCHANGED <<logSubscriptions, logIndex, logState>>
  /\ UNCHANGED <<logMinLevel, logFunc, logReading, logEvt, logCursor, logRunning, logVisited>>
  /\ LogStreamFrame

\* clear()
LogClear ==
  /\ LogWriteLockFree
  /\ LogCalled(<<"clear", NoLogSubscription>>)
  /\ logSubscriptions' = <<>>
  /\ logState' = [sub \in LogSubscriptions |->
                    IF sub \in InLogVector THEN "cleared" ELSE logState[sub]]
  /\ UNCHANGED <<logIndex, logMinLevel, logFunc, logReading, logEvt, logCursor, logRunning,
                 logVisited>>
  /\ LogStreamFrame

\* a store to the subscription's min_level, an atomic the holders of the subscription share
StoreMinLevel(sub, level) ==
  /\ logState[sub] # "new"
  /\ logMinLevel[sub] # level
  /\ LogCalled(<<"min_level", sub>>)
  /\ logMinLevel' = [logMinLevel EXCEPT ![sub] = level]
  /\ UNCHANGED <<logSubscriptions, logIndex, logFunc, logState, logReading, logEvt, logCursor,
                 logRunning, logVisited>>
  /\ LogStreamFrame

\* publish(evt) takes the read lock
LogPublishBegin(level) ==
  /\ ~logReading
  /\ LogCalled(<<"publish", NoLogSubscription>>)
  /\ logReading' = TRUE
  /\ logEvt' = level
  /\ logCursor' = 1
  /\ logVisited' = <<>>
  /\ UNCHANGED <<logSubscriptions, logIndex, logMinLevel, logFunc, logState, logRunning>>
  /\ LogStreamFrame

\* publish's loop comes to the next subscription and runs its handler if the level passes
LogPublishNext ==
  /\ logReading
  /\ logRunning = NoLogSubscription
  /\ logCursor <= Len(logSubscriptions)
  /\ LET sub == logSubscriptions[logCursor]
         run == LevelAccepts(logMinLevel[sub], logEvt)
     IN /\ logVisited' = Append(logVisited, <<sub, logMinLevel[sub], run>>)
        /\ logRunning' = IF run THEN sub ELSE NoLogSubscription
        /\ logCursor' = IF run THEN logCursor ELSE logCursor + 1
  /\ UNCHANGED <<logSubscriptions, logIndex, logMinLevel, logFunc, logState, logReading, logEvt,
                 logLastCall, logCalls>>
  /\ LogStreamFrame

\* sub.func.run(evt).await returns: a handler that calls subscribe, unsubscribe or clear
\* returns once that call has had the write lock
LogHandlerReturns ==
  /\ logReading
  /\ logRunning # NoLogSubscription
  /\ logFunc[logRunning] = "nothing" \/ LogWriteLockFree
  /\ logRunning' = NoLogSubscription
  /\ logCursor' = logCursor + 1
  /\ UNCHANGED <<logSubscriptions, logIndex, logMinLevel, logFunc, logState, logReading, logEvt,
                 logVisited, logLastCall, logCalls>>
  /\ LogStreamFrame

\* publish returns: the read lock is released
LogPublishReturn ==
  /\ logReading
  /\ logRunning = NoLogSubscription
  /\ logCursor > Len(logSubscriptions)
  /\ logReading' = FALSE
  /\ UNCHANGED <<logSubscriptions, logIndex, logMinLevel, logFunc, logState, logEvt, logCursor,
                 logRunning, logVisited, logLastCall, logCalls>>
  /\ LogStreamFrame

\* EventStream::new
InitLogStream ==
  /\ logSubscriptions = <<>>
  /\ logIndex = [sub \in LogSubscriptions |-> 0]
  /\ logMinLevel = [sub \in LogSubscriptions |-> LevelMin]
  /\ logFunc = [sub \in LogSubscriptions |-> "nothing"]
  /\ logState = [sub \in LogSubscriptions |-> "new"]
  /\ logReading = FALSE
  /\ logEvt = LevelMin
  /\ logCursor = 1
  /\ logRunning = NoLogSubscription
  /\ logVisited = <<>>
  /\ logLastCall = <<"new", NoLogSubscription>>
  /\ logCalls = 0

NextLogStream ==
  \/ \E f \in HandlerCalls : LogSubscribe(f)
  \/ \E sub \in LogSubscriptions : LogUnsubscribe(sub)
  \/ LogClear
  \/ \E sub \in LogSubscriptions, level \in Levels : StoreMinLevel(sub, level)
  \/ \E level \in Levels : LogPublishBegin(level)
  \/ LogPublishNext
  \/ LogHandlerReturns
  \/ LogPublishReturn

\* ---- specifications -----------------------------------------------------------------
\* the sections every specification starts from in the same state
InitBase ==
  /\ InitFuture /\ InitSpawn /\ InitMailbox /\ InitMiddleware /\ InitEventStream
  /\ InitReceiveTimeout /\ InitWatch /\ InitReentry /\ InitLogStream

Init ==
  InitBase /\ InitNoFailures /\ InitNoEnvelope /\ InitLifecycle

\* the future, its timer, its callers and its correspondents
Next == NextFuture
Spec == Init /\ [][Next]_vars

\* the dispatcher runs every scheduled runnable, tokio polls every task that can
\* make progress, and a sleep that is still selected on elapses; the environment's
\* calls are under no obligation
FutureFairness ==
  /\ \A m \in UserPayloads : WF_vars(RunUser(m))
  /\ \A m \in SystemPayloads : WF_vars(RunSystem(m))
  /\ WF_vars(TimerStart)
  /\ WF_vars(TimerNotified)
  /\ WF_vars(TimerSleepElapsed)
  /\ WF_vars(HandleTimeoutFail)
  /\ WF_vars(HandleTimeoutPipes)
  /\ \A c \in Callers : WF_vars(ResultCheck(c))
  /\ \A c \in Callers : WF_vars(ResultRegister(c))
  /\ \A c \in Callers : WF_vars(ResultWake(c))
FairSpec == Init /\ [][Next]_vars /\ FutureFairness

\* the spawner, with spawn calls running concurrently
SpawnNext == NextSpawn
SpawnSpec == Init /\ [][SpawnNext]_vars

\* one spawned actor with its mailbox
MailboxNext == NextMailbox
\* (the future of the other sections is created without a timer: it takes no part)
MailboxInit == Init /\ duration = 0
MailboxSpec == MailboxInit /\ [][MailboxNext]_vars

\* a supervisor's strategy handling the failures of one child
StrategyNext == NextStrategy
StrategyInit ==
  /\ InitBase /\ InitStrategy /\ InitNoEnvelope /\ duration = 0
  /\ InitLifecycle
StrategySpec == StrategyInit /\ [][StrategyNext]_vars

\* a message, the envelopes made of it, and wrap_envelope applied to them
EnvelopeNext == NextEnvelope
EnvelopeInit ==
  /\ InitBase /\ InitNoFailures /\ InitEnvelope /\ duration = 0
  /\ InitLifecycle
EnvelopeSpec == EnvelopeInit /\ [][EnvelopeNext]_vars

\* a supervisor and its children: stops, failures, sends from outside
LifecycleNext == NextLifecycle
\* the supervisor's strategy
InitSupervisorStrategy ==
  /\ \E n \in {0, 1} : OneForOneStrategyNew(n, 1)
  /\ clock = 0
  /\ restartStats = RestartStatisticsNew
  /\ handled = <<>>
LifecycleInit ==
  /\ InitBase /\ InitNoEnvelope /\ InitLifecycle /\ duration = 0
  /\ InitSupervisorStrategy
LifecycleSpec == LifecycleInit /\ [][LifecycleNext]_vars

\* the same tree with one child left, and the dispatcher running the turn of every
\* mailbox that has something to do
TerminationNext == NextLifecycle
TerminationInit ==
  /\ InitBase /\ InitNoEnvelope /\ InitOneChildLeft /\ duration = 0
  /\ InitSupervisorStrategy
TerminationFairness == \A a \in LifecycleActors : WF_vars(Turn(a))
TerminationSpec == TerminationInit /\ [][TerminationNext]_vars /\ TerminationFairness

\* the tree with one child left, requests made of its actors through a future with a
\* timeout, and the future's runnables and timer
DeadLetterNext ==
  \/ NextLifecycle
  \/ \E a \in LifecycleActors : RequestFutureTo(a)
  \/ \E m \in UserPayloads : RunUser(m)
  \/ TimerStart
  \/ TimerNotified
  \/ TimerSleepElapsed
  \/ HandleTimeoutFail
  \/ HandleTimeoutPipes
DeadLetterInit ==
  /\ InitBase /\ InitNoEnvelope /\ InitOneChildLeft /\ duration = 1
  /\ InitSupervisorStrategy
DeadLetterSpec == DeadLetterInit /\ [][DeadLetterNext]_vars

\* a Props, the middleware options applied to it, and messages through its chains
MiddlewareNext == NextMiddleware
MiddlewareInit ==
  /\ InitBase /\ InitNoFailures /\ InitNoEnvelope /\ InitLifecycle /\ duration = 0
MiddlewareSpec == MiddlewareInit /\ [][MiddlewareNext]_vars

\* an event stream with its subscribers and publishers
EventStreamNext == NextEventStream
EventStreamInit ==
  /\ InitBase /\ InitNoFailures /\ InitNoEnvelope /\ InitLifecycle /\ duration = 0
EventStreamSpec == EventStreamInit /\ [][EventStreamNext]_vars

\* an actor that sets receive timeouts, with the dispatcher running its mailbox
ReceiveTimeoutNext == NextReceiveTimeout
ReceiveTimeoutInit ==
  /\ InitBase /\ InitNoFailures /\ InitNoEnvelope /\ InitLifecycle /\ duration = 0
ReceiveTimeoutFairness == WF_vars(InvokeTimed)
ReceiveTimeoutSpec ==
  ReceiveTimeoutInit /\ [][ReceiveTimeoutNext]_vars /\ ReceiveTimeoutFairness

\* stop_future called on an actor of the tree, a task calling result() on the future it
\* returns; the dispatcher runs every mailbox turn, runnable, timer and caller step
StopFutureNext ==
  \/ \E a \in LifecycleActors : StopFuture(a)
  \/ \E a \in LifecycleActors : InvokeWatch(a)
  \/ \E a \in LifecycleActors : InvokeStop(a)
  \/ \E a \in LifecycleActors : InvokeTerminated(a)
  \/ \E a \in LifecycleActors : NotifyWatchers(a)
  \/ \E a \in LifecycleActors : SetDead(a)
  \/ \E a \in LifecycleActors : RemoveProcess(a)
  \/ \E m \in SystemPayloads : RunSystem(m)
  \/ TimerStart
  \/ TimerNotified
  \/ TimerSleepElapsed
  \/ HandleTimeoutFail
  \/ HandleTimeoutPipes
  \/ \E c \in Callers : CallResult(c)
  \/ \E c \in Callers : ResultCheck(c)
  \/ \E c \in Callers : ResultRegister(c)
  \/ \E c \in Callers : ResultWake(c)
StopFutureInit ==
  /\ InitBase /\ InitNoFailures /\ InitNoEnvelope /\ InitLifecycle /\ duration = 1
StopFutureFairness ==
  /\ FutureFairness
  /\ \A a \in LifecycleActors :
       WF_vars(InvokeWatch(a) \/ InvokeStop(a) \/ InvokeTerminated(a) \/ NotifyWatchers(a))
StopFutureSpec == StopFutureInit /\ [][StopFutureNext]_vars /\ StopFutureFairness

\* one actor from its spawn on: the spawner's steps, the senders of user messages, and
\* the mailbox's turns; the spawner goes on to its end, a sender that has enqueued goes
\* on to schedule, and the dispatcher runs every turn
StartNext ==
  \/ \E s \in MailboxActors, n \in MailboxActorNames : SpawnCall(s, n)
  \/ \E s \in MailboxActors : SpawnAddProcess(s)
  \/ \E s \in MailboxActors : SpawnSetSelf(s)
  \/ \E s \in MailboxActors : Initialize(s)
  \/ \E s \in MailboxActors : SpawnRegisterHandlers(s)
  \/ \E s \in MailboxActors, ok \in BOOLEAN : SpawnInvokePreStart(s, ok)
  \/ \E s \in MailboxActors : SpawnPostStart(s)
  \/ \E s \in MailboxActors : SpawnScheduleStart(s)
  \/ \E s \in MailboxActors : SpawnMailboxStart(s)
  \/ \E s \in MailboxActors : PostUserEnqueue(s)
  \/ \E s \in MailboxActors : PostUserSchedule(s)
  \/ \E s \in MailboxActors : TurnBegin(s)
  \/ \E s \in MailboxActors : TurnSystem(s)
  \/ \E s \in MailboxActors : TurnSystemDrained(s)
  \/ \E s \in MailboxActors : TurnSuspendedReturn(s)
  \/ \E s \in MailboxActors, ok \in BOOLEAN : TurnUser(s, ok)
  \/ \E s \in MailboxActors : TurnUserDone(s)
  \/ \E s \in MailboxActors : TurnRelease(s)
  \/ \E s \in MailboxActors : TurnRecheck(s)
StartInit == Init /\ duration = 0
StartFairness ==
  \A s \in MailboxActors :
    /\ WF_vars(SpawnAddProcess(s))
    /\ WF_vars(SpawnSetSelf(s))
    /\ WF_vars(Initialize(s))
    /\ WF_vars(SpawnRegisterHandlers(s))
    /\ WF_vars(\E ok \in BOOLEAN : SpawnInvokePreStart(s, ok))
    /\ WF_vars(SpawnPostStart(s))
    /\ WF_vars(SpawnScheduleStart(s))
    /\ WF_vars(SpawnMailboxStart(s))
    /\ WF_vars(PostUserSchedule(s))
    /\ WF_vars(TurnBegin(s))
    /\ WF_vars(TurnSystem(s))
    /\ WF_vars(TurnSystemDrained(s))
    /\ WF_vars(TurnSuspendedReturn(s))
    /\ WF_vars(\E ok \in BOOLEAN : TurnUser(s, ok))
    /\ WF_vars(TurnUserDone(s))
    /\ WF_vars(TurnRelease(s))
    /\ WF_vars(TurnRecheck(s))
StartSpec == StartInit /\ [][StartNext]_vars /\ StartFairness

\* tasks calling a future whose callbacks and pipe targets may call it again; tokio polls
\* every task that can go on
ReentryNext == NextReentry
ReentryInit ==
  /\ InitBase /\ InitNoFailures /\ InitNoEnvelope /\ InitLifecycle /\ duration = 0
ReentryFairness ==
  \A t \in Tasks :
    /\ WF_vars(AcquireWrite(t))
    /\ WF_vars(SendToPipe(t))
    /\ WF_vars(SendToPipesReturns(t))
    /\ WF_vars(RunCompletion(t))
    /\ WF_vars(CompletionReturns(t))
    /\ WF_vars(RunCompletionsReturns(t))
    /\ WF_vars(ContinuationReturns(t))
    /\ WF_vars(ReleaseWrite(t))
ReentrySpec == ReentryInit /\ [][ReentryNext]_vars /\ ReentryFairness

\* the log's event stream with its subscribers and publishers; tokio polls a publish
\* that can go on
LogStreamNext == NextLogStream
LogStreamInit ==
  /\ InitBase /\ InitNoFailures /\ InitNoEnvelope /\ InitLifecycle /\ duration = 0
LogStreamFairness ==
  /\ WF_vars(LogPublishNext)
  /\ WF_vars(LogHandlerReturns)
  /\ WF_vars(LogPublishReturn)
LogStreamSpec == LogStreamInit /\ [][LogStreamNext]_vars /\ LogStreamFairness

\* ---- properties of the future ---------------------------------------------------
\* C1: only the first complete-or-fail call takes effect, whichever of the explicit
\* calls, a user message, a system message or the timer makes it: it sets done and
\* stores its result or its error, and every later call leaves done, result and
\* error as they are.
C1_FirstCallWins ==
  /\ [](effective <= 1 /\ (done <=> effective = 1) /\ (done <=> resolvedBy # NotResolved))
  /\ [][done => (done' /\ result' = result /\ error' = error)]_vars
  /\ [](\A m \in DirectPayloads :
          resolvedBy = <<"complete", m>> => (result = m /\ error = None))
  /\ [](\A e \in ActorFutureError :
          resolvedBy = <<"fail", e>> => (error = e /\ result = None))
  /\ [](resolvedBy = <<"timeout", TimeoutError>> =>
          (error = TimeoutError /\ result = None))

\* a reply resolved the future, and the timer's late fail(TimeoutError) has run
C1_Witness ==
  /\ resolvedBy = <<"user", Pong>>
  /\ result = Pong
  /\ error = None
  /\ timerPc = "finished"

\* C2: every PID given to pipe_to is sent the resolved value exactly once, whether
\* pipe_to came before or after the future was done, and the timeout handler's own
\* loop over pipes sends nothing twice: each pipe_to call is either still pending
\* in pipes (future not done) or answered by one message, the resolved value.
C2_PipedExactlyOnce ==
  /\ \A t \in PipePids : Len(delivered[t]) + Occurrences(pipes, t) = pipeCalls[t]
  /\ done => /\ pipes = <<>>
             /\ \A t \in PipePids : \A i \in 1..Len(delivered[t]) :
                  delivered[t][i] = PipeMessage(result, error)
  /\ ~done => \A t \in PipePids : delivered[t] = <<>>

\* the future timed out; p1 was piped to twice and p2 once, and the handler's loop
\* over pipes has run
C2_Witness ==
  /\ resolvedBy = <<"timeout", TimeoutError>>
  /\ timerPc = "finished"
  /\ pipeCalls["p1"] = 2
  /\ pipeCalls["p2"] = 1
  /\ delivered["p1"] = <<TimeoutError, TimeoutError>>
  /\ delivered["p2"] = <<TimeoutError>>

\* C3: a task that has called result() eventually returns once the future is done,
\* with Ok(result) if it was completed and Err(error) if it was failed, for every
\* interleaving of result() with complete and fail.
C3_ResultReturnsOnceDone ==
  \A c \in Callers :
    (callerPc[c] # "idle" /\ done) ~>
      (callerPc[c] = "returned" /\ callerRet[c] = ResultValue(result, error))

\* C4: a future with a timeout greater than zero that is sent no message and is
\* not completed or failed explicitly eventually is done with TimeoutError, and a
\* task that has called result() on it is eventually given Err(TimeoutError); a
\* future that is done is never changed by the timer task.
C4_TimeoutYieldsError ==
  /\ (duration > 0) ~> (touched \/ (done /\ error = TimeoutError))
  /\ \A c \in Callers :
       (duration > 0 /\ callerPc[c] # "idle") ~>
         (touched \/ (callerPc[c] = "returned" /\ callerRet[c] = Err(TimeoutError)))
  /\ [][(done /\ (TimerStart \/ TimerNotified \/ TimerSleepElapsed
                    \/ HandleTimeoutFail \/ HandleTimeoutPipes)) =>
          (done' /\ result' = result /\ error' = error)]_vars

\* C5: a user message that reaches a future not yet done fails it with
\* DeadLetterError when its payload is DeadLetterResponse, and completes it with
\* that very payload otherwise.
C5_UserMessageResolves ==
  \A m \in UserPayloads :
    resolvedBy = <<"user", m>> =>
      /\ done
      /\ IF m = DeadLetterResponse
           THEN error = DeadLetterError /\ result = None
           ELSE result = m /\ error = None

\* a DeadLetterResponse reached the future first
C5_Witness ==
  /\ resolvedBy = <<"user", DeadLetterResponse>>
  /\ error = DeadLetterError

\* C6: a system message that reaches a future not yet done completes it with the
\* system message as result, whatever the message is, and never fails it.
C6_SystemMessageCompletes ==
  \A m \in SystemPayloads :
    resolvedBy = <<"system", m>> => (done /\ result = m /\ error = None)

\* a DeadLetterResponse sent as a system message reached the future first
C6_Witness ==
  /\ resolvedBy = <<"system", DeadLetterResponse>>
  /\ result = DeadLetterResponse

\* C7: request_future to a live target that replies to the envelope's sender: the
\* sender the target sees is the future's PID, the reply reaches the future
\* process, and a task that has called result() is eventually given Ok(reply),
\* or Err(TimeoutError) when the timeout fired first (no other message or call
\* reaching the future).
C7_RequestFutureYieldsReply ==
  /\ [](\A i \in 1..Len(targetInbox) : targetInbox[i].sender = pid)
  /\ [](reqPc = "replied" => deadLetters = 0)
  /\ \A c \in Callers :
       (reqPc = "replied" /\ callerPc[c] # "idle") ~>
         \/ ops > 0
         \/ /\ callerPc[c] = "returned"
            /\ callerRet[c] \in {Ok(Pong), Err(TimeoutError)}

\* C8: continue_with on a done future invokes the callback at once with the
\* stored (result, error); on a future not done it queues it, and the queued
\* callbacks are invoked, once each and in the order queued, with the final
\* (result, error) by the complete or fail that takes effect.
C8_CallbacksOnceInOrder ==
  /\ [](~done => /\ invoked = <<>>
                 /\ completions = [i \in 1..Len(registered) |-> registered[i][1]])
  /\ [](done => /\ completions = <<>>
                /\ invoked = [i \in 1..Len(registered) |->
                                <<registered[i][1], result, error>>])
  /\ [][(~done /\ done') =>
          invoked' = [i \in 1..Len(completions) |-> <<completions[i], result', error'>>]
       ]_vars
  /\ [][\A cb \in Callbacks : (ContinueWith(cb) /\ done) =>
          invoked' = Append(invoked, <<cb, result, error>>)]_vars

\* cb2 then cb1 were queued, the future was completed, then cb2 was given again
C8_Witness ==
  /\ registered = <<(<<"cb2", FALSE>>), (<<"cb1", FALSE>>), (<<"cb2", TRUE>>)>>
  /\ invoked = <<(<<"cb2", Pong, None>>), (<<"cb1", Pong, None>>), (<<"cb2", Pong, None>>)>>

\* ---- properties of the spawner ------------------------------------------------------
\* C9: a spawn under a name already registered fails with NameExists carrying the
\* PID of the existing entry; the registry keeps the first-inserted process under
\* that name, and none of the later steps (set_self, on_init hooks, handler
\* binding, PreStart, posting Start, mailbox start) runs for the rejected actor.
\* Of the spawns under one name that have reached the registry exactly one is
\* accepted and every other fails with NameExists; the accepted one succeeds
\* unless its PreStart fails.
C9_NameExistsRejects ==
  /\ [](\A s \in SpawnIds : spawnRet[s][1] = "ErrNameExists" =>
          /\ spawnRet[s] = ErrNameExists(spawnName[s])
          /\ spawnPc[s] = "done"
          /\ \E t \in SpawnIds \ {s} :
               /\ spawnName[t] = spawnName[s]
               /\ spawnPid[t] = spawnName[s]
               /\ processRegistry[spawnName[s]] = ActorProcess(t)
          /\ spawnPid[s] = NoPid
          /\ selfPid[s] = NoPid
          /\ initRun[s] = <<>>
          /\ ~handlers[s]
          /\ invokedUser[s] = <<>>
          /\ systemMailbox[s] = <<>>
          /\ ~mailboxStarted[s])
  /\ [][\A n \in ActorNames :
          processRegistry[n] # NoProcess => processRegistry'[n] = processRegistry[n]]_vars
  /\ [](\A n \in ActorNames :
          LET reached == {s \in SpawnIds : spawnName[s] = n
                                           /\ spawnPc[s] \notin {"idle", "add_process"}}
              accepted == {s \in reached : spawnPid[s] = n}
          IN  /\ reached # {} => Cardinality(accepted) = 1
              /\ \A s \in reached \ accepted : spawnRet[s] = ErrNameExists(n)
              /\ \A s \in accepted :
                   spawnPc[s] = "done" => spawnRet[s] \in {Ok(n), ErrPreStart(ActorError)})

\* two spawns under actor 1 have returned: the first with Ok, the second with
\* NameExists
C9_Witness ==
  /\ spawnName[1] = <<"actor", 1>>
  /\ spawnName[2] = <<"actor", 1>>
  /\ spawnRet[1] = Ok(<<"actor", 1>>)
  /\ spawnRet[2] = ErrNameExists(<<"actor", 1>>)
  /\ processRegistry[<<"actor", 1>>] = ActorProcess(1)
  /\ mailboxStarted[1]

\* C9 as stated: of two spawns under one name that have both returned, exactly one
\* has succeeded.
C9_ExactlyOneSucceeds ==
  \A s, t \in SpawnIds :
    (s # t /\ spawnName[s] = spawnName[t] /\ spawnPc[s] = "done" /\ spawnPc[t] = "done"
       /\ \A u \in SpawnIds \ {s, t} : spawnName[u] # spawnName[s]) =>
      Cardinality({u \in {s, t} : spawnRet[u][1] = "Ok"}) = 1

\* C10: when PreStart returns an error the spawn fails with PreStartFailed, the
\* half-created process is no longer in the registry, and no Start system message
\* has been posted to its mailbox.
C10_PreStartFailureDeregisters ==
  \A s \in SpawnIds :
    spawnRet[s] = ErrPreStart(ActorError) =>
      /\ processRegistry[spawnName[s]] # ActorProcess(s)
      /\ systemMailbox[s] = <<>>
      /\ ~mailboxStarted[s]

\* ---- properties of the actor's start and of its mailbox ----------------------------
\* C11: for every spawned actor PreStart is invoked exactly once, and before any
\* user message is invoked on that actor, whenever the user message was posted.
C11_PreStartOnceBeforeUser ==
  \A s \in SpawnIds :
    /\ Occurrences(invokedUser[s], PreStart) <= 1
    /\ spawnRet[s][1] = "Ok" => Occurrences(invokedUser[s], PreStart) = 1
    /\ \A i \in 1..Len(invokedUser[s]) :
         (\E k \in 1..Len(SenderMessages) : invokedUser[s][i] = SenderMessages[k]) =>
           \E j \in 1..(i - 1) : invokedUser[s][j] = PreStart

\* C12: at no instant are two message invocations of one actor in progress: at
\* most one dispatch turn holds the latch, only a successful idle-to-scheduled
\* transition submits a turn, and the spawner's PreStart invocation does not run
\* while a dispatch turn of the same actor is live.
C12_NoOverlappingInvocations ==
  /\ [](\A s \in SpawnIds :
          /\ liveTurns[s] <= 1
          /\ submitted[s] <= 1
          /\ submitted[s] = 1 <=> latch[s] = "scheduled"
          /\ liveTurns[s] = 1 <=> latch[s] = "processing")
  /\ [][\A s \in SpawnIds, ok \in BOOLEAN :
          SpawnInvokePreStart(s, ok) => liveTurns[s] = 0]_vars

\* the user messages of the sender among what the invoker was handed, in the order
\* it was handed them
SenderInvoked(s) ==
  SelectSeq(invokedUser[s], LAMBDA m : \E k \in 1..Len(SenderMessages) : m = SenderMessages[k])

\* C13: the user messages one sender posts to a mailbox are handed to the invoker
\* in the order they were enqueued, across dispatch turns, throughput-bounded
\* re-schedules and interleaved system messages.
C13_SenderFifo ==
  \A s \in SpawnIds :
    /\ Len(SenderInvoked(s)) <= userPosted[s]
    /\ \A i \in 1..Len(SenderInvoked(s)) : SenderInvoked(s)[i] = SenderMessages[i]

\* two messages of the sender were invoked in two turns, with the Start system
\* message handled between them
C13_Witness ==
  \E s \in SpawnIds :
    /\ invokedUser[s] = <<PreStart, SenderMessages[1], PostStart, SenderMessages[2]>>
    /\ Throughput = 1

\* nothing of the mailbox is in flight: no turn is submitted or live, no turn is
\* between its release of the latch and its look at the queues, no post is between
\* its enqueue and its schedule, and the spawner has returned
MailboxAtRest(s) ==
  /\ handlers[s]
  /\ latch[s] = "idle"
  /\ submitted[s] = 0
  /\ liveTurns[s] = 0
  /\ turnPc[s] = "none"
  /\ rechecks[s] = 0
  /\ userPostPc[s] = None
  /\ sysPostPc[s] = None
  /\ spawnRet[s][1] = "Ok"

\* C14: a mailbox with registered handlers never rests with a message it could
\* invoke: with the latch idle and no turn scheduled, the system queue is empty,
\* and the user queue is empty unless the mailbox is suspended.
C14_NeverRestsNonEmpty ==
  \A s \in SpawnIds :
    MailboxAtRest(s) => (sysQueue[s] = <<>> /\ (userQueue[s] = <<>> \/ suspended[s]))

\* the step hands a user message of the sender to the invoker of s
InvokesSenderMessage(s) ==
  /\ Len(invokedUser'[s]) = Len(invokedUser[s]) + 1
  /\ \E k \in 1..Len(SenderMessages) : invokedUser'[s][Len(invokedUser'[s])] = SenderMessages[k]

\* C15: a turn goes on to the user messages only once it has found the system
\* queue empty; a user message is invoked only by a turn that is past that point,
\* and never while the mailbox is suspended; a turn that finds the mailbox
\* suspended after the drain sets the latch to idle and delivers no user message.
C15_SystemBeforeUser ==
  /\ [](\A s \in SpawnIds : turnPc[s] = "user" => ~suspended[s])
  /\ [][\A s \in SpawnIds :
          (turnPc[s] # "user" /\ turnPc'[s] = "user") =>
            (turnPc[s] = "system" /\ sysQueue[s] = <<>> /\ ~suspended[s])]_vars
  /\ [][\A s \in SpawnIds :
          InvokesSenderMessage(s) =>
            (turnPc[s] = "user" /\ ~suspended[s] /\ latch[s] = "processing")]_vars
  /\ [][\A s \in SpawnIds :
          (turnPc[s] = "system" /\ turnPc'[s] # "system") =>
            /\ sysQueue[s] = <<>>
            /\ suspended[s] => turnPc'[s] = "suspended"]_vars
  /\ [][\A s \in SpawnIds :
          (turnPc[s] = "suspended" /\ turnPc'[s] # "suspended") =>
            /\ turnPc'[s] = "none"
            /\ latch'[s] = "idle"
            /\ invokedUser'[s] = invokedUser[s]
            /\ userQueue'[s] = userQueue[s]]_vars

\* a Suspend was handled, and the turn has returned with the latch idle and the
\* sender's message still in the queue
C15_Witness ==
  \E s \in SpawnIds :
    /\ suspended[s]
    /\ escalated[s] = <<>>
    /\ \E i \in 1..Len(invokedSystem[s]) : invokedSystem[s][i] = SuspendMailbox
    /\ userQueue[s] = <<SenderMessages[1]>>
    /\ SenderInvoked(s) = <<>>
    /\ latch[s] = "idle"
    /\ turnPc[s] = "none"
    /\ submitted[s] = 0

\* C16: a failed user invocation is escalated exactly once, with the reason and
\* the message that failed; after it no user message of the mailbox is invoked
\* until a Resume has been handled, while the turn goes on with the system
\* messages.
C16_FailureEscalatedOnce ==
  /\ [][\A s \in SpawnIds :
          IF InvokesSenderMessage(s) /\ suspended'[s]
            THEN /\ escalated'[s] =
                      Append(escalated[s], <<ReceiveError, invokedUser'[s][Len(invokedUser'[s])]>>)
                 /\ turnPc'[s] = "system"
            ELSE escalated'[s] = escalated[s]]_vars
  /\ [](\A s \in SpawnIds : \A i, j \in 1..Len(escalated[s]) :
          escalated[s][i] = escalated[s][j] => i = j)
  /\ [](\A s \in SpawnIds :
          Len(escalated[s]) > Occurrences(invokedSystem[s], ResumeMailbox) => suspended[s])
  /\ [][\A s \in SpawnIds : InvokesSenderMessage(s) => ~suspended[s]]_vars
  /\ [][\A s \in SpawnIds :
          (suspended[s] /\ ~suspended'[s]) =>
            invokedSystem'[s] = Append(invokedSystem[s], ResumeMailbox)]_vars

\* the first message failed and was escalated, a Resume was handled after it, and
\* the second message was then invoked
C16_Witness ==
  \E s \in SpawnIds :
    /\ escalated[s] = <<<<ReceiveError, SenderMessages[1]>>>>
    /\ \E i \in 1..Len(invokedSystem[s]) : invokedSystem[s][i] = ResumeMailbox
    /\ SenderInvoked(s) = <<SenderMessages[1], SenderMessages[2]>>

\* ---- properties of the OneForOneStrategy -----------------------------------------
\* the i-th failure handed to the strategy was decided Restart
DecidedRestart(i) == handled[i].directive = DirectiveRestart

\* the failures of the child on record within the window at its i-th failure: those
\* its statistics held at the start, and those the calls up to the i-th were to
\* record
FailuresOnRecord(i) ==
  FailuresWithin(restartStats, within_duration, handled[i].at)
  + Cardinality({j \in 1..i : DecidedRestart(j) /\ handled[j].at > handled[i].at - within_duration})

\* C17: with max_retries > 0 and the decider returning Restart, a failure that
\* brings the child's failures within the window to more than max_retries makes
\* handle_failure stop the child, the failures counted by the earlier calls
\* included.
C17_StopsWhenLimitExceeded ==
  max_retries > 0 =>
    \A i \in 1..Len(handled) :
      ( /\ DecidedRestart(i)
        /\ \A j \in 1..(i - 1) : handled[j].call.operation # "stop_children"
        /\ FailuresOnRecord(i) > max_retries )
      => handled[i].call = SupervisorCall("stop_children", <<Child>>)

\* C18: with max_retries = N > 0 and the decider returning Restart, a child with
\* nothing on record is restarted on each of its first N failures inside the
\* window and stopped on the (N+1)-th.
C18_RestartedNTimesThenStopped ==
  (max_retries > 0 /\ restartStats = RestartStatisticsNew) =>
    \A i \in 1..Len(handled) :
      ( /\ \A j \in 1..i : DecidedRestart(j)
        /\ handled[1].at > handled[i].at - within_duration
        /\ i <= max_retries + 1 )
      => handled[i].call =
           IF i <= max_retries THEN SupervisorCall("restart_children", <<Child>>)
                               ELSE SupervisorCall("stop_children", <<Child>>)

\* C19: with max_retries = 0 and the decider returning Restart, every failure
\* stops the child, none restarts it, and the statistics are as they were: no
\* failure is recorded.
C19_ZeroRetriesAlwaysStops ==
  /\ [](max_retries = 0 =>
         \A i \in 1..Len(handled) :
           /\ handled[i].call.operation # "restart_children"
           /\ DecidedRestart(i) =>
                /\ handled[i].call = SupervisorCall("stop_children", <<Child>>)
                /\ handled[i].rs = handled[i].given)
  /\ [][max_retries = 0 => restartStats' = restartStats]_vars

\* two failures of a child with failures on record were stopped by a strategy
\* with max_retries = 0
C19_Witness ==
  /\ max_retries = 0
  /\ restartStats # RestartStatisticsNew
  /\ Len(handled) >= 2
  /\ \A i \in 1..Len(handled) : DecidedRestart(i)

C21_OneActionPerDirective ==
  /\ [](\A i \in 1..Len(handled) :
          LET h == handled[i] IN
          /\ h.directive = Decider(h.reason)
          /\ h.directive = DirectiveResume => h.call = [operation |-> "resume_children", argument |-> <<Child>>]
          /\ h.directive = DirectiveStop => h.call = [operation |-> "stop_children", argument |-> <<Child>>]
          /\ h.directive = DirectiveEscalate =>
               h.call = [operation |-> "escalate_failure", argument |-> <<h.reason, FailedMessage>>]
          /\ h.directive = DirectiveRestart =>
               /\ h.call.operation \in {"restart_children", "stop_children"}
               /\ h.call.argument = <<Child>>
          /\ h.directive # DirectiveRestart => h.rs = h.given)
  /\ [][Len(handled') <= Len(handled) + 1 /\ restartStats' = restartStats]_vars

\* a Resume, a Stop and an Escalate were handled for a child with failures on record
C21_Witness ==
  /\ Len(handled) = 3
  /\ restartStats # RestartStatisticsNew
  /\ \E i \in 1..3 : handled[i].call.operation = "resume_children"
  /\ \E i \in 1..3 : handled[i].directive = DirectiveStop /\ handled[i].call.operation = "stop_children"
  /\ \E i \in 1..3 : handled[i].call.operation = "escalate_failure"

\* ---- properties of the envelope -----------------------------------------------------
\* C22: wrap_envelope is idempotent: wrapping what wrap_envelope returned gives an
\* envelope with the same header, payload and sender, for a plain message and for
\* an envelope alike, and an envelope that is wrapped is never made the payload of
\* a new envelope.
C22_WrapIdempotent ==
  /\ LET once == WrapEnvelope(envMessage)
         twice == WrapEnvelope(once)
     IN /\ once.kind = "envelope"
        /\ UnwrapEnvelope(twice) = UnwrapEnvelope(once)
        /\ envMessage.kind = "envelope" => UnwrapEnvelope(once) = UnwrapEnvelope(envMessage)
        /\ envMessage.kind = "message" => UnwrapEnvelope(once) = <<OptionNone, envMessage, OptionNone>>
  /\ \A i \in 1..Len(envWrapped) :
       /\ envWrapped[i].kind = "envelope"
       /\ envWrapped[i].message.kind = "message"
       /\ UnwrapEnvelope(envWrapped[i]) = UnwrapEnvelope(envWrapped[1])

\* an envelope with a header and a sender was wrapped, and the result wrapped again
C22_Witness ==
  /\ envMessage.kind = "envelope"
  /\ envMessage.header = OptionSome({<<"k1", "v1">>})
  /\ envMessage.sender # OptionNone
  /\ Len(envWrapped) = 2
  /\ envWrapped[2] = envMessage

\* ---- properties of the lifecycle ------------------------------------------------------
ReceivedBy(a, m) == \E i \in 1..Len(actorReceived[a]) : actorReceived[a][i] = m

\* C23: for the parent and each of its children, a child that has terminated (stopped
\* from outside, stopped with its stopping parent, or stopped by the supervisor strategy
\* on a Stop directive or a Restart directive past the restart limit) leads to the
\* parent's receive being given Terminated(child); and the parent is given
\* Terminated(child) of terminated children only
C23_ParentReceivesTerminated ==
  /\ \A c \in Children : (actorState[c] = Stopped) ~> ReceivedBy(Parent, Terminated(c))
  /\ [](\A c \in Children : ReceivedBy(Parent, Terminated(c)) => actorState[c] = Stopped)

\* a child failed, no stop was asked from outside, the strategy had the child stopped,
\* and the parent, still alive, was given Terminated(child)
C23_Witness ==
  /\ stopCalls = 0
  /\ failures > 0
  /\ actorState[Child] = Stopped
  /\ actorState[Parent] = Alive
  /\ ReceivedBy(Parent, Terminated(Child))

EventsOf(m) == {j \in 1..Len(deadLetterEvents) : deadLetterEvents[j].message = m}
InQueueOf(a, m) == \E j \in 1..Len(actorUserQueue[a]) : actorUserQueue[a][j] = m
\* the request was made of a PID whose process was dead or removed
RequestedOfDead ==
  \E i \in 1..Len(sentLog) : sentLog[i].dead /\ sentLog[i].message.who # NoPid

RECURSIVE LayersOf(_)
LayersOf(ch) == IF ch.kind = "terminal" THEN <<>> ELSE <<ch.middleware>> \o LayersOf(ch.next)
RECURSIVE TerminalOf(_)
TerminalOf(ch) == IF ch.kind = "terminal" THEN ch ELSE TerminalOf(ch.next)
\* the chain of a list: none for the empty list, else the list's middlewares in the
\* order they were added, around the terminal
ChainOfList(chain, ms, last) ==
  IF ms = <<>>
    THEN chain = OptionNone
    ELSE /\ chain # OptionNone
         /\ LayersOf(chain[1]) = ms
         /\ TerminalOf(chain[1]) = last
\* the position of the first middleware of ms that does not call next (past the end
\* of ms if all do)
FirstBlocking(ms) ==
  IF \A i \in 1..Len(ms) : CallsNext(ms[i])
    THEN Len(ms) + 1
    ELSE CHOOSE k \in 1..Len(ms) : ~CallsNext(ms[k]) /\ \A i \in 1..(k - 1) : CallsNext(ms[i])
\* a message through the chain of ms: the middlewares see the call in the order they
\* were added, as far as the first one that does not call next; the terminal runs
\* if and only if all of them call next; the returns come in the opposite order
RunInOrder(trace, last) ==
  LET ms == trace.middlewares
      events == trace.events
      k == FirstBlocking(ms)
      n == Len(ms)
  IN events # <<>> =>
       IF k = n + 1
         THEN /\ Len(events) = 2 * n + 1
              /\ \A i \in 1..n : events[i] = Enter(ms[i])
              /\ events[n + 1] = Ran(last.name)
              /\ \A i \in 1..n : events[2 * n + 2 - i] = Return(ms[i])
         ELSE /\ Len(events) = 2 * k
              /\ \A i \in 1..k : events[i] = Enter(ms[i])
              /\ \A i \in 1..k : events[2 * k + 1 - i] = Return(ms[i])
              /\ \A i \in 1..Len(events) : events[i] # Ran(last.name)

\* C26: after any number of with_receiver_middlewares and with_sender_middlewares
\* options, each chain holds every middleware added so far, the first added outermost,
\* around the actor's receive or the target's send_user_message; a message through a
\* chain is seen by the middlewares in that order and returns through them in the
\* opposite order, and the terminal runs unless a middleware does not call next
C26_ChainOfAllAddedInOrder ==
  /\ ChainOfList(receiver_middleware_chain, receiverAdded, ReceiveTerminal)
  /\ ChainOfList(sender_middleware_chain, senderAdded, SendTerminal)
  /\ RunInOrder(receiverTrace, ReceiveTerminal)
  /\ RunInOrder(senderTrace, SendTerminal)

\* two options were applied to each list; the receiver's message passed two middlewares
\* to the actor's receive, the sender's was stopped by the second of three
C26_Witness ==
  /\ receiverAdded = <<"first", "second">>
  /\ receiverTrace.middlewares = receiverAdded
  /\ receiverTrace.events = <<Enter("first"), Enter("second"), Ran("receive"),
                              Return("second"), Return("first")>>
  /\ senderAdded = <<"second", "blocking", "first">>
  /\ senderTrace.middlewares = senderAdded
  /\ senderTrace.events = <<Enter("second"), Enter("blocking"), Return("blocking"), Return("second")>>

\* ---- properties of the event stream ---------------------------------------------------
Subscribed == {sub \in Subscriptions : subState[sub] = "subscribed"}

CalledOf(sub) == {i \in 1..Len(publishCalls) : publishCalls[i][1] = sub}

TimeoutsQueued == Occurrences(timedMailbox, ReceiveTimeout)
TimeoutsReceived == Occurrences(timedReceived, ReceiveTimeout)
TimerRanOut == timerRemaining = 1 /\ ticks' = ticks + 1

C31_StopFutureResolves ==
  /\ [][\A a \in LifecycleActors :
          (actorWatchers[a] # {} /\ actorWatchers'[a] = {}) =>
             /\ actorState[a] = Stopped
             /\ scheduled'[Runnable("system", TerminatedNotice)] =
                  scheduled[Runnable("system", TerminatedNotice)] + 1]_vars
  /\ [](resolvedBy = <<"system", TerminatedNotice>> =>
          (done /\ result = TerminatedNotice /\ error = None))
  /\ (stopFutureOf # NoPid) ~> done
  /\ \A c \in Callers :
       (stopFutureOf # NoPid /\ callerPc[c] # "idle") ~>
         /\ callerPc[c] = "returned"
         /\ callerRet[c] \in {Ok(TerminatedNotice), Err(TimeoutError)}

Registered(s) == spawnPid[s] # NoPid /\ processRegistry[spawnName[s]] = ActorProcess(s)
StepsDone(s) ==
  <<Registered(s), selfPid[s] # NoPid, initRun[s] # <<>>, handlers[s], invokedUser[s] # <<>>,
    systemMailbox[s] # <<>>, mailboxStarted[s], spawnRet[s][1] = "Ok">>

\* C33: a spawn does its steps in the order: process registered under the name,
\* self_pid set, on_init hooks run in their order, handlers bound into the mailbox,
\* PreStart invoked, Start posted, mailbox.start() called, PID returned: no step is
\* done before the one before it, every step is done once, no hook runs with self_pid
\* not set, and Start is posted only after PreStart has returned Ok
C33_SpawnerStepsInOrder ==
  /\ [](\A s \in SpawnIds :
          /\ \A i \in 2..8 : StepsDone(s)[i] => StepsDone(s)[i - 1]
          /\ selfPid[s] \in {NoPid, spawnPid[s]}
          /\ initRun[s] \in {<<>>, OnInit}
          /\ initRun[s] # <<>> => (selfPid[s] = spawnPid[s] /\ selfPid[s] # NoPid)
          /\ invokedUser[s] \in {<<>>, <<PreStart>>}
          /\ systemMailbox[s] \in {<<>>, <<Start>>}
          /\ systemMailbox[s] # <<>> =>
               /\ invokedUser[s] = <<PreStart>>
               /\ spawnRet[s] \in {NotSpawned, Ok(spawnPid[s])}
          /\ spawnRet[s][1] = "Ok" => (spawnRet[s] = Ok(spawnPid[s]) /\ mailboxStarted[s]))
  /\ [][\A s \in SpawnIds :
          /\ \A i \in 1..8 : StepsDone(s)[i] => StepsDone(s)'[i]
          /\ Cardinality({i \in 1..7 : StepsDone(s)'[i]}) <=
               Cardinality({i \in 1..7 : StepsDone(s)[i]}) + 1
          /\ StepsDone(s)'[8] => (StepsDone(s)[8] \/ StepsDone(s)[6])]_vars

\* a spawn has returned its PID with every step done
C33_Witness ==
  \E s \in SpawnIds :
    /\ spawnRet[s] = Ok(spawnPid[s])
    /\ \A i \in 1..8 : StepsDone(s)[i]
    /\ initRun[s] = OnInit

\* ---- properties of a stopping parent ---------------------------------------------------
HandlesTerminated(a) ==
  /\ actorSysQueue[a] # <<>>
  /\ Head(actorSysQueue[a]).type = "Terminated"

\* C34: an actor that begins to stop with children sends each of them Stop and is
\* Stopping; it becomes Stopped (PostStop given) only in the step that handles the
\* Terminated of its last child, its children by then all stopped; it is marked dead
\* and removed from the registry only once Stopped; and the children of an actor change
\* only in that actor's own handling of a Terminated, which takes the child it names
\* out of them
C34_ChildrenStopFirst ==
  /\ [](\A a \in LifecycleActors :
          /\ actorState[a] = Stopped =>
               /\ actorChildren[a] = {}
               /\ ReceivedBy(a, PostStop)
               /\ \A c \in Children : ParentOf(c) = a => actorState[c] = Stopped
          /\ actorDead[a] => actorState[a] = Stopped
          /\ ~actorRegistered[a] => actorDead[a]
          /\ actorState[a] = Stopping => actorChildren[a] # {})
  /\ [][\A a \in LifecycleActors :
          /\ (actorState[a] = Alive /\ actorState'[a] # Alive /\ actorChildren[a] # {}) =>
               /\ actorState'[a] = Stopping
               /\ \A c \in actorChildren[a] :
                    ResolvesToActor(c) =>
                      /\ actorSysQueue'[c] # <<>>
                      /\ actorSysQueue'[c][Len(actorSysQueue'[c])] = StopMessage
          /\ (actorState[a] = Stopping /\ actorState'[a] # Stopping) =>
               /\ actorState'[a] = Stopped
               /\ HandlesTerminated(a)
               /\ actorChildren[a] = {Head(actorSysQueue[a]).who}
          /\ actorChildren'[a] # actorChildren[a] =>
               /\ HandlesTerminated(a)
               /\ actorChildren'[a] = actorChildren[a] \ {Head(actorSysQueue[a]).who}
               /\ actorState[Head(actorSysQueue[a]).who] = Stopped]_vars

\* the parent was stopped with both children alive: it has stopped after them, and
\* all three are dead and removed
C34_Witness ==
  /\ \A a \in LifecycleActors : actorState[a] = Stopped /\ actorDead[a] /\ ~actorRegistered[a]
  /\ ReceivedBy(Parent, Terminated(Child))
  /\ ReceivedBy(Parent, Terminated(Sibling))
  /\ actorReceived[Parent][Len(actorReceived[Parent])] = PostStop
  /\ actorReceived[Parent][1] = PreStop

\* ---- properties of the future's fields ---------------------------------------------------
\* C35: between the operations on a future (no operation holding its lock): a future
\* not done has neither result nor error; a done future has exactly one of them, and
\* its pipes and its queued completion callbacks are empty
C35_FutureFieldsConsistent ==
  /\ ~done => (result = None /\ error = None)
  /\ done => /\ (result = None) # (error = None)
             /\ pipes = <<>>
             /\ completions = <<>>

\* a future with a PID piped to and a callback queued was failed by its timer: both
\* lists were emptied, the error is set and the result is not
C35_Witness ==
  /\ done
  /\ error = TimeoutError
  /\ result = None
  /\ pipes = <<>>
  /\ completions = <<>>
  /\ \E t \in PipePids : delivered[t] = <<TimeoutError>>
  /\ \E cb \in Callbacks : registered = <<(<<cb, FALSE>>)>> /\ invoked = <<(<<cb, None, TimeoutError>>)>>
  /\ timerPc = "finished"

\* C37: a future created with a zero timeout has no timer task: it is never failed by
\* a timeout, it is done only by a message that reached it or by an explicit complete
\* or fail, and result() returns only from a done future, with its outcome
C37_ZeroTimeoutArmsNoTimer ==
  duration = 0 =>
    /\ timerPc = "none"
    /\ resolvedBy[1] # "timeout"
    /\ TimerTask \notin notifyWaiters \cup notified
    /\ done <=> resolvedBy[1] \in {"complete", "fail", "user", "system"}
    /\ error = TimeoutError => resolvedBy = <<"fail", TimeoutError>>
    /\ \A c \in Callers :
         callerPc[c] = "returned" => done /\ callerRet[c] = ResultValue(result, error)
C37_Witness ==
  /\ duration = 0
  /\ timerPc = "none"
  /\ done
  /\ resolvedBy[1] = "user"
  /\ \E c \in Callers : callerPc[c] = "returned" /\ callerRet[c] = Ok(result)

\* ---- properties of the future's lock --------------------------------------------------
\* C36: every complete, fail and continue_with call returns, whatever the callbacks
\* and the pipe targets it runs do with the same future
C36_OperationsTerminate ==
  \A t \in Tasks :
    (taskOp[t].kind \in {"complete", "fail", "continue_with"}) ~> (taskPc[t] = "idle")

\* ---- properties of the log's event stream ----------------------------------------------
\* the vector without the entry at a 0-based position, the last entry in its place
LastInto(list, index) ==
  [k \in 1..(Len(list) - 1) |-> IF k = index + 1 THEN list[Len(list)] ELSE list[k]]

\* C38: every subscription in the vector stores its position; an unsubscribe of a
\* subscription in the vector takes out that one, the last entry taking its slot, and
\* an unsubscribe of one that is not in the vector changes nothing
C38_IndexIsPosition ==
  /\ [](\A i \in 1..Len(logSubscriptions) :
          /\ logIndex[logSubscriptions[i]] = i - 1
          /\ \A j \in 1..Len(logSubscriptions) : logSubscriptions[j] = logSubscriptions[i] => j = i)
  /\ [][(logCalls' # logCalls /\ logLastCall'[1] = "unsubscribe") =>
          LET sub == logLastCall'[2] IN
          IF sub \in InLogVector
            THEN /\ logSubscriptions' = LastInto(logSubscriptions, LogPosition(sub))
                 /\ InLogVector' = InLogVector \ {sub}
                 /\ \A other \in InLogVector' : logIndex'[other] = LogPosition(other)'
            ELSE UNCHANGED <<logSubscriptions, logIndex, logMinLevel, logFunc, logState>>]_vars
\* of three subscriptions the first was unsubscribed, the third took its slot and its
\* index, and a second unsubscribe of the first was made
C38_Witness ==
  /\ logSubscriptions = <<3, 2>>
  /\ logIndex[3] = 0
  /\ logState[1] = "unsubscribed"
  /\ logLastCall = <<"unsubscribe", 1>>
  /\ logCalls = 5

\* the subscriptions the publish in progress has come to are the vector's first ones, in
\* its order, and the handler was run for those whose min_level the event's level reaches
HandlersRunInOrder ==
  logReading =>
    /\ Len(logVisited) = (IF logRunning # NoLogSubscription THEN logCursor ELSE logCursor - 1)
    /\ \A i \in 1..Len(logVisited) :
         /\ logVisited[i][1] = logSubscriptions[i]
         /\ logVisited[i][3] <=> (logVisited[i][2] <= logEvt)

\* C39: publish comes to the subscriptions in the vector's order, runs the handler of
\* exactly those whose min_level is at most the event's level, and returns, whatever
\* the handlers it runs do with the stream
C39_PublishRunsAndReturns ==
  /\ []HandlersRunInOrder
  /\ logReading ~> ~logReading

\* ---- properties of unwrap_envelope ------------------------------------------------------
\* C40: unwrap_envelope gives back what the message was built with: for a plain message
\* m no header, m and no sender, also after wrap_envelope; for an envelope the header
\* given by with_header, the payload and the sender given by with_sender, also after
\* wrap_envelope, which keeps header and sender
C40_UnwrapInvertsWrap ==
  /\ [][envUnwrapped' # envUnwrapped => envUnwrapped' = OptionSome(envBuilt)]_vars
  /\ [](/\ envBuilt[2] \in PlainMessages
        /\ envMessage.kind = "message" =>
             /\ envBuilt = <<OptionNone, envMessage, OptionNone>>
             /\ UnwrapEnvelope(WrapEnvelope(envMessage))[2] = envMessage
        /\ \A i \in 1..Len(envWrapped) :
             envMessage.kind = "envelope" =>
               /\ envWrapped[i].header = envMessage.header
               /\ envWrapped[i].sender = envMessage.sender
               /\ envWrapped[i].header = envBuilt[1]
               /\ envWrapped[i].sender = envBuilt[3])
\* an envelope built with with_header and with_sender was wrapped and the result unwrapped
C40_Witness ==
  /\ envMessage.kind = "envelope"
  /\ envBuilt = <<OptionSome({<<"k1", "v1">>}), [kind |-> "message", value |-> "world"],
                  OptionSome(<<"sender", 1>>)>>
  /\ Len(envWrapped) = 1
  /\ envUnwrapped = OptionSome(envBuilt)
====
